---- MODULE Spec2Model ----
(***************************************************************************)
(* Repository hook/interceptor pipeline (BaseFileRepository) and the two   *)
(* repository adapters (DrizzleFileRepository, PrismaFileRepository) of    *)
(* ultra-fileio, and FlexibleFileService.deleteFile over a repository and  *)
(* the R2 bucket.                                                          *)
(*                                                                         *)
(* One step of the model is what one wrapped call does between two of its  *)
(* await points: it resumes with the outcome of the callback it awaited    *)
(* and runs synchronously up to the next await.                            *)
(***************************************************************************)
EXTENDS Integers, Sequences, FiniteSets, TLC

VARIABLES
    hooks,      \* BaseFileRepository.hooks of each repository instance
    requested,  \* per hook name, the function the last constructor/addHook/removeHook asked for
    hookOps,    \* number of addHook/removeHook calls made so far
    call,       \* the frame of each wrapped call (locals of wrapWithHooks)
    hist,       \* history of each call: what it invoked, in which order
    store,      \* the files table behind each repository instance
    bucket      \* the R2 bucket behind the file service

vars == <<hooks, requested, hookOps, call, hist, store, bucket>>

-----------------------------------------------------------------------------
(* Bounds *)

\* addHook/removeHook calls per run
MaxHookOps == 2

\* records ever inserted into one files table
MaxFiles == 2

-----------------------------------------------------------------------------
(* Values *)

None == "none"

\* hook functions a caller can register (function identities)
Fns == {"f", "g"}

\* concurrent call frames
Calls == {"c1", "c2"}

\* repository instances: one DrizzleFileRepository, one PrismaFileRepository
Repos == {"drizzle", "prisma"}

BeforeNames == {"beforeCreate", "beforeRead", "beforeUpdate", "beforeDelete", "beforeQuery"}
AfterNames == {"afterCreate", "afterRead", "afterUpdate", "afterDelete", "afterQuery"}

\* keys of FileRepositoryHooks
HookNames == BeforeNames \cup AfterNames \cup {"onError", "intercept"}

NoValue == [t |-> "undefined"]
Val(x) == [t |-> "value", v |-> x]
Err(n) == [t |-> "Error", name |-> n]

\* thrown by the engine itself when it dereferences context.metadata
TypeErr == Err("TypeError")

\* errors a hook or the interceptor may throw
HookErrors == {Err("H1")}

Return(v) == [kind |-> "return", value |-> v]
Throw(e) == [kind |-> "throw", value |-> e]
Pending == [kind |-> "pending", value |-> NoValue]

\* outcomes of a caller-supplied operationFn
ThunkOutcomes == {Return(Val("r1")), Throw(Err("E1"))}

\* what a hook invocation may do
HookOutcomes == {Return(NoValue)} \cup {Throw(e) : e \in HookErrors}

\* what an interceptor invocation may do: throw, return the context it was
\* given, return a new context with a metadata bag of its own, or return a
\* new context without the optional metadata field
InterceptOutcomes ==
    {Return(Val("same")), Return(Val("replace")), Return(Val("replaceNoMeta"))}
        \cup {Throw(e) : e \in HookErrors}

-----------------------------------------------------------------------------
(* HookContext *)

EmptyBag == [defined |-> TRUE, duration |-> FALSE, originalContext |-> <<>>]
NoBag == [defined |-> FALSE, duration |-> FALSE, originalContext |-> <<>>]

\* the repository keeps the context of a call and hands it to the next one
NewContext_Reused(operation, data) ==
    LET used == {c \in Calls : call[c].pc # "idle"} IN
    IF used = {}
        THEN [operation |-> operation, data |-> data, result |-> NoValue,
              error |-> NoValue, metadata |-> EmptyBag, obj |-> "call"]
        ELSE [call[CHOOSE c \in used : TRUE].context EXCEPT
                    !.operation = operation, !.data = data]

\* const context: HookContext = { operation, data, metadata: {}, ... }
NewContext(operation, data) ==
    [operation |-> operation, data |-> data, result |-> NoValue,
     error |-> NoValue, metadata |-> EmptyBag, obj |-> "call"]

\* the synthetic context leaves out the context of the failed hook
HookErrorContext_Flat(error, context) ==
    [operation |-> "hook_error", data |-> NoValue, result |-> NoValue,
     error |-> error,
     metadata |-> [defined |-> TRUE, duration |-> FALSE, originalContext |-> <<>>],
     obj |-> "hook_error"]

\* the synthetic context executeHook hands to onError for a failed hook:
\* { operation: 'hook_error', error, metadata: { originalContext: context } }
HookErrorContext(error, context) ==
    [operation |-> "hook_error", data |-> NoValue, result |-> NoValue,
     error |-> error,
     metadata |-> [defined |-> TRUE, duration |-> FALSE, originalContext |-> <<context>>],
     obj |-> "hook_error"]

\* context.metadata!.duration = Date.now() - startTime
SetDuration(context) ==
    [context EXCEPT !.metadata = [@ EXCEPT !.duration = TRUE]]

\* a throwing interceptor leaves a context of its own behind
InterceptResult_ThrowReplaces(context, out, phase) ==
    IF out.kind = "return" /\ out.value = Val("same") THEN context
    ELSE IF out.kind = "return" /\ out.value = Val("replaceNoMeta")
        THEN [context EXCEPT !.metadata = NoBag, !.obj = phase]
    ELSE [context EXCEPT !.metadata = EmptyBag, !.obj = phase]

\* the context executeInterceptor returns for an interceptor outcome
InterceptResult(context, out, phase) ==
    IF out.kind = "throw" THEN context
    ELSE IF out.value = Val("same") THEN context
    ELSE IF out.value = Val("replace")
        THEN [context EXCEPT !.metadata = EmptyBag, !.obj = phase]
    ELSE [context EXCEPT !.metadata = NoBag, !.obj = phase]

-----------------------------------------------------------------------------
(* The files table and the values of the repository contract *)

\* ids the backend assigns, in the order of insertion; createdAt is the same clock
Ids == 1..MaxFiles

\* originalFilename is a sequence of characters
Inserts ==
    {[r2Key |-> "k1", originalFilename |-> <<"a", "b">>, fileSize |-> 100,
      publicUrl |-> "https://x/k1", uploadedBy |-> "u1"],
     [r2Key |-> "k2", originalFilename |-> <<"A", "c">>, fileSize |-> 0,
      publicUrl |-> "https://x/k2", uploadedBy |-> "u2"]}

Insert1 == CHOOSE d \in Inserts : d.r2Key = "k1"
Insert2 == CHOOSE d \in Inserts : d.r2Key = "k2"

\* Partial<FileInsert> values passed to updateFile
Updates == {[originalFilename |-> <<"c">>]}

\* a JS number and a JS bigint
Num(n) == [t |-> "number", n |-> n]
BigInt(n) == [t |-> "bigint", n |-> n]

\* how the file_size column is declared: Int (or bigint in mode 'number'),
\* which the database client reads as a JS number, or BigInt, which the
\* Prisma client reads as a JS bigint
ColumnTypes == {"Int", "BigInt"}

EmptyStore == [rows |-> {}, nextId |-> 1, sizeColumn |-> "Int"]

\* empty tables: the Drizzle table is read as numbers (integer, or bigint in
\* mode 'number'), the Prisma table's file_size column is of type t
EmptyStores(t) ==
    [r \in {"drizzle", "prisma"} |->
        IF r = "prisma" THEN [EmptyStore EXCEPT !.sizeColumn = t] ELSE EmptyStore]

\* the value the database client hands out for a file size of the table
SizeValue(st, n) == IF st.sizeColumn = "BigInt" THEN BigInt(n) ELSE Num(n)

\* the objects in the bucket, by key, the DeleteObject commands sent to it and
\* the keys of the objects whose metadata holds an expiresAt that has passed
EmptyBucket == [keys |-> {}, deletes |-> 0, expired |-> {}]

\* the row the backend stores for an insert, as its client hands it out: id
\* and createdAt are assigned by the backend
NewRow(st, id, d) ==
    [id |-> id, r2Key |-> d.r2Key, originalFilename |-> d.originalFilename,
     fileSize |-> SizeValue(st, d.fileSize), publicUrl |-> d.publicUrl,
     uploadedBy |-> d.uploadedBy, createdAt |-> id]

\* limit = 50 when options.limit is undefined
DefaultLimit == 50

\* FileQueryOptions; <<>>, "" and 0 stand for an absent (falsy) field
NoFilter ==
    [search |-> <<>>, uploaderId |-> "", startDate |-> 0, endDate |-> 0,
     limit |-> DefaultLimit, offset |-> 0, orderDir |-> "desc"]

QueryOptions ==
    {NoFilter,
     [NoFilter EXCEPT !.search = <<"a">>, !.limit = 1],
     [NoFilter EXCEPT !.limit = 1],
     [NoFilter EXCEPT !.uploaderId = "u1"],
     [NoFilter EXCEPT !.startDate = 2, !.orderDir = "asc"]}

\* the calls of the IFileRepository contract, over bounded arguments; for
\* getFileStats, `since` is the sevenDaysAgo the call computes from the clock:
\* the createdAt from which on a row is at most seven days old (every row,
\* every row but the first, no row of a full table)
Requests ==
    {[op |-> "createFile", data |-> d] : d \in Inserts}
    \cup {[op |-> "getFileById", id |-> i] : i \in Ids}
    \cup {[op |-> "getFileByR2Key", r2Key |-> d.r2Key] : d \in Inserts}
    \cup {[op |-> "updateFile", id |-> i, data |-> u] : i \in Ids, u \in Updates}
    \cup {[op |-> "deleteFile", id |-> i] : i \in Ids}
    \cup {[op |-> "getFilesByUser", userId |-> d.uploadedBy] : d \in Inserts}
    \cup {[op |-> "getAllFiles", options |-> o] : o \in QueryOptions}
    \cup {[op |-> "bulkDeleteFiles", ids |-> s] : s \in {<<>>, <<1>>, <<1, 2>>}}
    \cup {[op |-> "bulkCreateFiles", files |-> s] : s \in {<<>>, <<Insert1, Insert2>>}}
    \cup {[op |-> "getFileStats", since |-> t] : t \in {1, 2, MaxFiles + 1}}
    \cup {[op |-> "exists", id |-> i] : i \in Ids}
    \cup {[op |-> "count", options |-> o] : o \in QueryOptions}

ContractOps == {r.op : r \in Requests}

\* values a repository method resolves to
Null == [t |-> "null"]
Record(row) == [t |-> "FileRecord", row |-> row]
List(rows) == [t |-> "list", items |-> rows]
Page(rows, total) == [t |-> "page", data |-> rows, total |-> total]
Deleted(n) == [t |-> "deleted", deleted |-> n]
Bool(b) == [t |-> "boolean", b |-> b]
Stats(totalFiles, totalSize, recentUploads, average) ==
    [t |-> "stats", totalFiles |-> totalFiles, totalSize |-> totalSize,
     recentUploads |-> recentUploads, averageFileSize |-> average]

\* new StorageError({code, metadata: {id}, cause})
StorageError(code, id, cause) ==
    [t |-> "StorageError", code |-> code, metadata |-> id, cause |-> cause]

\* a NOT_FOUND error that does not say which id was asked for
NotFound_NoId(id) == StorageError("NOT_FOUND", <<>>, "none")

NotFound(id) == StorageError("NOT_FOUND", <<id>>, "none")
Internal(cause) == StorageError("INTERNAL_SERVER_ERROR", <<>>, cause)

-----------------------------------------------------------------------------
(* Call frames *)

IdleCall ==
    [pc |-> "idle", repo |-> None, wrapped |-> TRUE, operation |-> None,
     request |-> [op |-> None], fault |-> FALSE, partial |-> <<>>,
     beforeHook |-> None, afterHook |-> None,
     context |-> NoValue, hook |-> None, hookCtx |-> NoValue,
     result |-> NoValue, caught |-> NoValue, outcome |-> Pending]

\* per call: the callbacks it invoked and what they did, the outcome of its
\* operationFn, the hook names it was started with, the registrations that
\* were requested when it started and the names re-registered since; for a
\* repository method also the records its caller has been handed so far and
\* not seen deleted, the table the method found and the backend queries it
\* issued; for a call of the file service the table and the bucket it found
IdleHist ==
    [log |-> <<>>, thunk |-> Pending, beforeName |-> None, afterName |-> None,
     startReq |-> [n \in HookNames |-> None], changed |-> {},
     known |-> {}, storeAt |-> EmptyStore, queries |-> 0, bucketAt |-> EmptyBucket]

Ev(ev, stage, fn, context, out) ==
    [ev |-> ev, stage |-> stage, fn |-> fn, ctx |-> context, out |-> out]

\* log entries for invoking a registered callback (nothing when none is registered)
Invoked(stage, fn, context) ==
    IF fn = None THEN <<>> ELSE <<Ev("start", stage, fn, context, Pending)>>

Settled(stage, fn, context, out) ==
    IF fn = None THEN <<>> ELSE <<Ev("end", stage, fn, context, out)>>

-----------------------------------------------------------------------------
(* BaseFileRepository *)

\* executeInterceptor reads this.hooks.intercept when it is called
CurrentInterceptor(repo) == hooks[repo]["intercept"]

\* wrapWithHooks' catch block and executeHook read this.hooks.onError when they run
CurrentOnError(repo) == hooks[repo]["onError"]

\* executeHook forwards every hook's failure, that of onError included
Forwards_Any(repo, hook) == CurrentOnError(repo) # None

\* executeHook forwards a hook's failure to onError unless the hook is onError itself
Forwards(repo, hook) == CurrentOnError(repo) # None /\ hook # CurrentOnError(repo)

\* the thunk is started before the before-hook is awaited
NextStage_ThunkFirst(pc) ==
    CASE pc = "intercept_pre" -> "operation"
      [] pc = "operation" -> "before"
      [] pc = "before" -> "intercept_post"
      [] pc = "intercept_post" -> "after"
      [] OTHER -> "done"

\* the stage wrapWithHooks enters after `pc` on its success path
NextStage(pc) ==
    CASE pc = "intercept_pre" -> "before"
      [] pc = "before" -> "operation"
      [] pc = "operation" -> "intercept_post"
      [] pc = "intercept_post" -> "after"
      [] OTHER -> "done"

\* the callback wrapWithHooks calls on entering `stage`
StageHook(k, stage) ==
    CASE stage \in {"intercept_pre", "intercept_post"} -> CurrentInterceptor(k.repo)
      [] stage = "before" -> k.beforeHook
      [] stage = "after" -> k.afterHook
      [] stage = "error" -> CurrentOnError(k.repo)
      [] OTHER -> None

\* the frame suspended at the await of `stage`, called with `context`
Enter(k, stage, context) ==
    IF stage = "done"
        THEN [k EXCEPT !.pc = "done", !.context = context, !.hook = None,
                       !.outcome = Return(k.result)]
        ELSE [k EXCEPT !.pc = stage, !.context = context,
                       !.hook = StageHook(k, stage), !.hookCtx = context]

\* the log entry for the callback a frame has just called
FrameLog(k) ==
    CASE k.pc = "done" -> <<>>
      [] k.pc = "operation" -> <<Ev("start", "operation", "operationFn", k.context, Pending)>>
      [] k.pc = "error" -> Invoked("onError", k.hook, k.hookCtx)
      [] OTHER -> Invoked(k.pc, k.hook, k.hookCtx)

\* wrapWithHooks up to its first await: the context is built and the interceptor called
WrappedFrame(repo, request, beforeName, afterName, data) ==
    Enter([IdleCall EXCEPT !.repo = repo, !.operation = request.op,
                           !.request = request,
                           !.beforeHook = hooks[repo][beforeName],
                           !.afterHook = hooks[repo][afterName]],
          "intercept_pre", NewContext(request.op, data))

WrappedHist(repo, request, beforeName, afterName, data) ==
    [IdleHist EXCEPT !.beforeName = beforeName, !.afterName = afterName,
                     !.startReq = requested[repo],
                     !.log = FrameLog(WrappedFrame(repo, request, beforeName, afterName, data))]

StartWrapped(c, repo, request, beforeName, afterName, data) ==
    /\ call[c].pc \in {"idle", "done"}
    /\ call' = [call EXCEPT ![c] = WrappedFrame(repo, request, beforeName, afterName, data)]
    /\ hist' = [hist EXCEPT ![c] = WrappedHist(repo, request, beforeName, afterName, data)]

\* a wrapped operation of the create category with a caller-supplied operationFn
StartCall(c) ==
    /\ StartWrapped(c, "drizzle", [op |-> "operationFn"],
                    "beforeCreate", "afterCreate", Val("d"))
    /\ UNCHANGED <<hooks, requested, hookOps, store, bucket>>

\* the failure of the thunk is treated like its return: the after-hook is next
Catch_ThenAfterHook(k, context, error) ==
    Enter([k EXCEPT !.caught = error], "after", [context EXCEPT !.error = error])

\* the frame after the catch block of wrapWithHooks has run for `error`
Catch(k, context, error) ==
    LET ctx == [context EXCEPT !.error = error] IN
    IF ~ctx.metadata.defined
        THEN [k EXCEPT !.pc = "done", !.context = ctx, !.caught = error,
                       !.hook = None, !.outcome = Throw(TypeErr)]
        ELSE Enter([k EXCEPT !.caught = error], "error", SetDuration(ctx))

\* the awaited interceptor settles; wrapWithHooks goes on to the next stage
ResumeInterceptor(c, out) ==
    LET k == call[c]
        ctx == InterceptResult(k.hookCtx, out, k.pc)
    IN
    /\ k.pc \in {"intercept_pre", "intercept_post"}
    /\ out \in (IF k.hook = None THEN {Return(Val("same"))} ELSE InterceptOutcomes)
    /\ call' = [call EXCEPT ![c] = Enter(k, NextStage(k.pc), ctx)]
    /\ hist' = [hist EXCEPT ![c].log =
            @ \o Settled(k.pc, k.hook, k.hookCtx, out) \o FrameLog(Enter(k, NextStage(k.pc), ctx))]
    /\ UNCHANGED <<hooks, requested, hookOps, store, bucket>>

\* executeHook lets the hook's failure escape into wrapWithHooks' catch block
AfterHook_Rethrow(k, out) ==
    IF k.pc = "error"
        THEN [k EXCEPT !.pc = "done", !.hook = None, !.outcome = Throw(k.caught)]
    ELSE IF out.kind = "throw" THEN Catch(k, k.context, out.value)
    ELSE Enter(k, NextStage(k.pc), k.context)

\* the frame after executeHook has returned to wrapWithHooks; the hook's
\* outcome `out` was caught inside executeHook
AfterHook(k, out) ==
    IF k.pc = "error"
        THEN [k EXCEPT !.pc = "done", !.hook = None, !.outcome = Throw(k.caught)]
        ELSE Enter(k, NextStage(k.pc), k.context)

\* the stage under which the awaited hook of frame k is logged
HookStage(k) ==
    IF k.hookCtx.operation = "hook_error" THEN "hook_error"
    ELSE IF k.pc = "error" THEN "onError"
    ELSE k.pc

\* the awaited hook settles inside executeHook
ResumeHook(c, out) ==
    LET k == call[c]
        errCtx == HookErrorContext(out.value, k.hookCtx)
    IN
    /\ k.pc \in {"before", "after", "error"}
    /\ out \in (IF k.hook = None THEN {Return(NoValue)} ELSE HookOutcomes)
    /\ IF out.kind = "throw" /\ Forwards(k.repo, k.hook)
        THEN /\ call' = [call EXCEPT ![c] =
                    [k EXCEPT !.hook = CurrentOnError(k.repo), !.hookCtx = errCtx]]
             /\ hist' = [hist EXCEPT ![c].log =
                    @ \o Settled(HookStage(k), k.hook, k.hookCtx, out)
                      \o Invoked("hook_error", CurrentOnError(k.repo), errCtx)]
        ELSE /\ call' = [call EXCEPT ![c] = AfterHook(k, out)]
             /\ hist' = [hist EXCEPT ![c].log =
                    @ \o Settled(HookStage(k), k.hook, k.hookCtx, out)
                      \o FrameLog(AfterHook(k, out))]
    /\ UNCHANGED <<hooks, requested, hookOps, store, bucket>>

\* the frame after operationFn has settled with `out`
AfterOperation(k, out) ==
    IF out.kind = "throw" THEN Catch(k, k.context, out.value)
    ELSE LET ctx == [k.context EXCEPT !.result = out.value]
             k1 == [k EXCEPT !.result = out.value]
         IN
         IF ~ctx.metadata.defined
            THEN Catch(k1, ctx, TypeErr)
            ELSE Enter(k1, NextStage("operation"), SetDuration(ctx))

\* the awaited operationFn of a generic wrapped call settles
ResumeOperation(c, out) ==
    LET k == call[c] IN
    /\ k.pc = "operation"
    /\ k.request.op = "operationFn"
    /\ out \in ThunkOutcomes
    /\ call' = [call EXCEPT ![c] = AfterOperation(k, out)]
    /\ hist' = [hist EXCEPT
            ![c].thunk = out,
            ![c].log = @ \o <<Ev("end", "operation", "operationFn", k.context, out)>>
                         \o FrameLog(AfterOperation(k, out))]
    /\ UNCHANGED <<hooks, requested, hookOps, store, bucket>>

InFlight(c) == call[c].pc \notin {"idle", "done"}

NoteChange(repo, name) ==
    [c \in Calls |-> IF InFlight(c) /\ call[c].repo = repo
                        THEN [hist[c] EXCEPT !.changed = @ \cup {name}]
                        ELSE hist[c]]

\* addHook writes into a copy of the table (as getHooks returns one)

\* this.hooks[hookName] = hookFn
HooksAfterAdd(repo, name, fn) == [hooks EXCEPT ![repo][name] = fn]

\* delete this.hooks[hookName]
HooksAfterRemove(repo, name) == [hooks EXCEPT ![repo][name] = None]

AddHook(repo, name, fn) ==
    /\ hookOps < MaxHookOps
    /\ hooks' = HooksAfterAdd(repo, name, fn)
    /\ requested' = [requested EXCEPT ![repo][name] = fn]
    /\ hookOps' = hookOps + 1
    /\ hist' = NoteChange(repo, name)
    /\ UNCHANGED <<call, store, bucket>>

RemoveHook(repo, name) ==
    /\ hookOps < MaxHookOps
    /\ hooks' = HooksAfterRemove(repo, name)
    /\ requested' = [requested EXCEPT ![repo][name] = None]
    /\ hookOps' = hookOps + 1
    /\ hist' = NoteChange(repo, name)
    /\ UNCHANGED <<call, store, bucket>>

-----------------------------------------------------------------------------
(* Backend queries: what the Drizzle query builder and the Prisma client     *)
(* answer for the calls the adapters make                                    *)

Min(a, b) == IF a <= b THEN a ELSE b

RECURSIVE SumSizes(_)
SumSizes(S) ==
    IF S = {} THEN 0
    ELSE LET r == CHOOSE r \in S : TRUE IN r.fileSize.n + SumSizes(S \ {r})

\* ORDER BY created_at; createdAt is unique per row
RECURSIVE SortByCreatedAt(_, _)
SortByCreatedAt(S, dir) ==
    IF S = {} THEN <<>>
    ELSE LET r == CHOOSE r \in S : \A x \in S :
                    IF dir = "desc" THEN r.createdAt >= x.createdAt
                    ELSE r.createdAt <= x.createdAt
         IN <<r>> \o SortByCreatedAt(S \ {r}, dir)

Lower(ch) == CASE ch = "A" -> "a" [] ch = "B" -> "b" [] ch = "C" -> "c" [] OTHER -> ch

LowerAll(s) == [i \in DOMAIN s |-> Lower(s[i])]

IsInfix(s, t) == \E i \in 0..(Len(t) - Len(s)) : SubSeq(t, i + 1, i + Len(s)) = s

\* like(originalFilename, `%${search}%`): case-sensitive
DrizzleLike(filename, search) == IsInfix(search, filename)

\* { contains: search, mode: "insensitive" }
PrismaContains(filename, search) == IsInfix(LowerAll(search), LowerAll(filename))

\* the where clause built from FileQueryOptions by getAllFiles and count
Matches(repo, o, row) ==
    /\ o.search # <<>> =>
            IF repo = "drizzle" THEN DrizzleLike(row.originalFilename, o.search)
            ELSE PrismaContains(row.originalFilename, o.search)
    /\ o.uploaderId # "" => row.uploadedBy = o.uploaderId
    /\ o.startDate # 0 => row.createdAt >= o.startDate
    /\ o.endDate # 0 => row.createdAt <= o.endDate

\* Number(value) of a JS number or bigint
Number(v) == Num(v.n)

\* `x || 0`: 0 and 0n are falsy
OrZero(v) == IF v.n = 0 THEN Num(0) ELSE v

\* the FileRecord an adapter builds from a backend row: the Drizzle adapter
\* converts the size with Number(file.fileSize), the Prisma adapter hands
\* file.fileSize on as the client returned it
mapToFileRecord(repo, file) ==
    [id |-> file.id, r2Key |-> file.r2Key, originalFilename |-> file.originalFilename,
     fileSize |-> IF repo = "drizzle" THEN Number(file.fileSize) ELSE file.fileSize,
     publicUrl |-> file.publicUrl,
     uploadedBy |-> file.uploadedBy, createdAt |-> file.createdAt]

\* results.map(this.mapToFileRecord)
MapRecords(repo, rows) == [i \in DOMAIN rows |-> mapToFileRecord(repo, rows[i])]

\* FileRecordWithUser: the row joined with its uploader (users source configured)
WithUser(repo, row) ==
    [file |-> mapToFileRecord(repo, row), uploaderName |-> row.uploadedBy, uploaderEmail |-> row.uploadedBy]

\* the page query of getAllFiles: filter, order, offset, limit
PageRows(repo, o, st) ==
    LET sorted == SortByCreatedAt({r \in st.rows : Matches(repo, o, r)}, o.orderDir)
        page == SubSeq(sorted, o.offset + 1, Min(Len(sorted), o.offset + o.limit))
    IN [i \in DOMAIN page |-> WithUser(repo, page[i])]

\* the count query of getAllFiles and count
CountRows(repo, o, st) == Cardinality({r \in st.rows : Matches(repo, o, r)})

\* AVG(file_size) as the fraction sum / n; 0 on an empty table
\* where gte(createdAt, sevenDaysAgo)
RecentRows(st, since) == {r \in st.rows : r.createdAt >= since}

Average(rows) ==
    IF rows = {} THEN <<0, 1>> ELSE <<SumSizes(rows), Cardinality(rows)>>

\* a lookup that treats no match as an error
FoundOrNull_Throws(repo, rows) ==
    IF rows = {} THEN Throw(Internal("no match"))
    ELSE Return(Record(mapToFileRecord(repo, CHOOSE r \in rows : TRUE)))

\* file ? this.mapToFileRecord(file) : null, for the rows a lookup matched
FoundOrNull(repo, rows) ==
    IF rows = {} THEN Return(Null)
    ELSE Return(Record(mapToFileRecord(repo, CHOOSE r \in rows : TRUE)))

\* a count that leaves the search term out of its where clause
CountMatches_NoSearch(repo, o, row) ==
    /\ o.uploaderId # "" => row.uploadedBy = o.uploaderId
    /\ o.startDate # 0 => row.createdAt >= o.startDate
    /\ o.endDate # 0 => row.createdAt <= o.endDate

\* the where clause count builds from FileQueryOptions
CountMatches(repo, o, row) ==
    /\ o.search # <<>> =>
            IF repo = "drizzle" THEN DrizzleLike(row.originalFilename, o.search)
            ELSE PrismaContains(row.originalFilename, o.search)
    /\ o.uploaderId # "" => row.uploadedBy = o.uploaderId
    /\ o.startDate # 0 => row.createdAt >= o.startDate
    /\ o.endDate # 0 => row.createdAt <= o.endDate

\* the count query of count
CountOnly(repo, o, st) == Cardinality({r \in st.rows : CountMatches(repo, o, r)})

\* an exists that still answers true for an id whose record was deleted
DrizzleExists_Ever(st, id) == id < st.nextId

\* exists in the Drizzle adapter: select id ... limit 1, then !!file
DrizzleExists(st, id) == {r \in st.rows : r.id = id} # {}

\* exists in the Prisma adapter: count({where: {id}}) > 0
PrismaExists(st, id) == Cardinality({r \in st.rows : r.id = id}) > 0

\* bulk methods that hand an empty list to the backend like any other
SkipsBackend_Never(req) == FALSE

\* the bulk methods return before touching the backend when the list is empty
SkipsBackend(req) ==
    \/ req.op = "bulkDeleteFiles" /\ Len(req.ids) = 0
    \/ req.op = "bulkCreateFiles" /\ Len(req.files) = 0

\* the backend queries of a method: getAllFiles asks for the page and for the
\* total, getFileStats for the totals and the recent count (Drizzle) or for
\* count, sum, recent count and average (Prisma)
QueryPlan(repo, req) ==
    CASE req.op = "getAllFiles" -> <<"data", "total">>
      [] req.op = "getFileStats" /\ repo = "drizzle" -> <<"stats", "recent">>
      [] req.op = "getFileStats" /\ repo = "prisma" -> <<"count", "sum", "recent", "avg">>
      [] OTHER -> <<"only">>

\* the Drizzle adapter awaits its queries one after the other, the Prisma
\* adapter issues them together (Promise.all)
OneByOne(repo) == repo = "drizzle"

\* backend queries a method has issued when it settles, `answered` of them
\* answered before the one that settles it: a method awaiting them one by one
\* stops at the query that is rejected
QueriesIssued(repo, req, answered) ==
    IF SkipsBackend(req) THEN 0
    ELSE IF OneByOne(repo) THEN answered + 1
    ELSE Len(QueryPlan(repo, req))

Answer(out, st) == [out |-> out, st |-> st]

\* the backend rejects the query; the adapter's catch wraps it
Fails(st, cause) == Answer(Throw(Internal(cause)), st)

KeyTaken(st, key) == \E r \in st.rows : r.r2Key = key

RECURSIVE InsertAll(_, _)
InsertAll(st, files) ==
    IF files = <<>> THEN st
    ELSE InsertAll([st EXCEPT !.rows = @ \cup {NewRow(st, st.nextId, Head(files))},
                              !.nextId = @ + 1], Tail(files))

\* all r2Keys of `files` are new and pairwise different
AllKeysFree(st, files) ==
    /\ \A i \in DOMAIN files : ~KeyTaken(st, files[i].r2Key)
    /\ \A i, j \in DOMAIN files : i # j => files[i].r2Key # files[j].r2Key

\* the rows `files` got, in input order
InsertedRows(st, files) ==
    [i \in DOMAIN files |-> NewRow(st, st.nextId + i - 1, files[i])]

\* row with the fields of a Partial<FileInsert> applied
Updated(row, data) == [row EXCEPT !.originalFilename = data.originalFilename]

TheRow(st, id) == CHOOSE r \in st.rows : r.id = id

HasRow(st, id) == \E r \in st.rows : r.id = id

-----------------------------------------------------------------------------
(* DrizzleFileRepository: the operation thunks *)

\* what the thunk of a Drizzle method settles to and the table it leaves;
\* `fault` says the database rejects the query
DrizzleThunk(req, st, fault) ==
    CASE req.op = "createFile" ->
            IF fault THEN Fails(st, "db")
            ELSE IF KeyTaken(st, req.data.r2Key) THEN Fails(st, "unique")
            ELSE Answer(Return(Record(mapToFileRecord("drizzle", NewRow(st, st.nextId, req.data)))),
                        InsertAll(st, <<req.data>>))
      [] req.op = "getFileById" ->
            IF fault THEN Fails(st, "db")
            ELSE Answer(FoundOrNull("drizzle", {r \in st.rows : r.id = req.id}), st)
      [] req.op = "getFileByR2Key" ->
            IF fault THEN Fails(st, "db")
            ELSE Answer(FoundOrNull("drizzle", {r \in st.rows : r.r2Key = req.r2Key}), st)
      [] req.op = "updateFile" ->
            IF fault THEN Fails(st, "db")
            ELSE IF ~HasRow(st, req.id) THEN Answer(Throw(NotFound(req.id)), st)
            ELSE Answer(Return(Record(mapToFileRecord("drizzle", Updated(TheRow(st, req.id), req.data)))),
                        [st EXCEPT !.rows = (@ \ {TheRow(st, req.id)})
                                        \cup {Updated(TheRow(st, req.id), req.data)}])
      [] req.op = "deleteFile" ->
            \* a DELETE that matches no row resolves like any other
            IF fault THEN Fails(st, "db")
            ELSE Answer(Return(NoValue), [st EXCEPT !.rows = {r \in @ : r.id # req.id}])
      [] req.op = "getFilesByUser" ->
            IF fault THEN Fails(st, "db")
            ELSE Answer(Return(List(MapRecords("drizzle", SortByCreatedAt(
                            {r \in st.rows : r.uploadedBy = req.userId}, "desc")))), st)
      [] req.op = "bulkDeleteFiles" ->
            \* db.delete(this.filesTable.files): the table object has no column
            \* `files`, so the statement names no table and the database rejects it
            IF SkipsBackend(req) THEN Answer(Return(Deleted(0)), st)
            ELSE Fails(st, "no table")
      [] req.op = "bulkCreateFiles" ->
            IF SkipsBackend(req) THEN Answer(Return(List(<<>>)), st)
            ELSE IF fault THEN Fails(st, "db")
            ELSE IF ~AllKeysFree(st, req.files) THEN Fails(st, "unique")
            ELSE Answer(Return(List(MapRecords("drizzle", InsertedRows(st, req.files)))),
                        InsertAll(st, req.files))
      [] req.op = "getFileStats" ->
            IF fault THEN Fails(st, "db")
            ELSE Answer(Return(Stats(Cardinality(st.rows),
                                     Number(SizeValue(st, SumSizes(st.rows))),
                                     Cardinality(RecentRows(st, req.since)),
                                     Average(st.rows))), st)
      [] req.op = "exists" ->
            IF fault THEN Fails(st, "db")
            ELSE Answer(Return(Bool(DrizzleExists(st, req.id))), st)
      [] req.op = "count" ->
            IF fault THEN Fails(st, "db")
            ELSE Answer(Return(Num(CountOnly("drizzle", req.options, st))), st)

-----------------------------------------------------------------------------
(* PrismaFileRepository: the operation thunks *)

\* what the thunk of a Prisma method settles to and the table it leaves
PrismaThunk(req, st, fault) ==
    CASE req.op = "createFile" ->
            IF fault THEN Fails(st, "db")
            ELSE IF KeyTaken(st, req.data.r2Key) THEN Fails(st, "unique")
            ELSE Answer(Return(Record(mapToFileRecord("prisma", NewRow(st, st.nextId, req.data)))),
                        InsertAll(st, <<req.data>>))
      [] req.op = "getFileById" ->
            IF fault THEN Fails(st, "db")
            ELSE Answer(FoundOrNull("prisma", {r \in st.rows : r.id = req.id}), st)
      [] req.op = "getFileByR2Key" ->
            IF fault THEN Fails(st, "db")
            ELSE Answer(FoundOrNull("prisma", {r \in st.rows : r.r2Key = req.r2Key}), st)
      [] req.op = "updateFile" ->
            \* prisma.file.update rejects with P2025 when no record matches
            IF fault THEN Fails(st, "db")
            ELSE IF ~HasRow(st, req.id) THEN Answer(Throw(NotFound(req.id)), st)
            ELSE Answer(Return(Record(mapToFileRecord("prisma", Updated(TheRow(st, req.id), req.data)))),
                        [st EXCEPT !.rows = (@ \ {TheRow(st, req.id)})
                                        \cup {Updated(TheRow(st, req.id), req.data)}])
      [] req.op = "deleteFile" ->
            \* prisma.file.delete rejects with P2025 when no record matches
            IF fault THEN Fails(st, "db")
            ELSE IF ~HasRow(st, req.id) THEN Answer(Throw(NotFound(req.id)), st)
            ELSE Answer(Return(NoValue), [st EXCEPT !.rows = {r \in @ : r.id # req.id}])
      [] req.op = "getFilesByUser" ->
            IF fault THEN Fails(st, "db")
            ELSE Answer(Return(List(MapRecords("prisma", SortByCreatedAt(
                            {r \in st.rows : r.uploadedBy = req.userId}, "desc")))), st)
      [] req.op = "bulkDeleteFiles" ->
            IF SkipsBackend(req) THEN Answer(Return(Deleted(0)), st)
            ELSE IF fault THEN Fails(st, "db")
            ELSE Answer(Return(Deleted(Cardinality(
                            {r \in st.rows : \E i \in DOMAIN req.ids : req.ids[i] = r.id}))),
                        [st EXCEPT !.rows =
                            {r \in @ : \A i \in DOMAIN req.ids : req.ids[i] # r.id}])
      [] req.op = "bulkCreateFiles" ->
            \* $transaction: all rows or none
            IF SkipsBackend(req) THEN Answer(Return(List(<<>>)), st)
            ELSE IF fault THEN Fails(st, "db")
            ELSE IF ~AllKeysFree(st, req.files) THEN Fails(st, "unique")
            ELSE Answer(Return(List(MapRecords("prisma", InsertedRows(st, req.files)))),
                        InsertAll(st, req.files))
      [] req.op = "getFileStats" ->
            IF fault THEN Fails(st, "db")
            ELSE Answer(Return(Stats(Cardinality(st.rows),
                                     OrZero(SizeValue(st, SumSizes(st.rows))),
                                     Cardinality(RecentRows(st, req.since)),
                                     Average(st.rows))), st)
      [] req.op = "exists" ->
            IF fault THEN Fails(st, "db")
            ELSE Answer(Return(Bool(PrismaExists(st, req.id))), st)
      [] req.op = "count" ->
            IF fault THEN Fails(st, "db")
            ELSE Answer(Return(Num(CountOnly("prisma", req.options, st))), st)

AdapterThunk(repo, req, st, fault) ==
    IF repo = "drizzle" THEN DrizzleThunk(req, st, fault) ELSE PrismaThunk(req, st, fault)

-----------------------------------------------------------------------------
(* The repository methods *)

\* the before/after hook pair a method hands to wrapWithHooks
OpHooks(op) ==
    CASE op \in {"createFile", "bulkCreateFiles"} -> <<"beforeCreate", "afterCreate">>
      [] op \in {"getFileById", "getFileByR2Key"} -> <<"beforeRead", "afterRead">>
      [] op = "updateFile" -> <<"beforeUpdate", "afterUpdate">>
      [] op \in {"deleteFile", "bulkDeleteFiles"} -> <<"beforeDelete", "afterDelete">>
      [] OTHER -> <<"beforeQuery", "afterQuery">>

\* the methods whose body is a wrapWithHooks call; getFileStats, exists and
\* count call the backend directly, in both adapters
Wrapped(repo, op) == op \notin {"getFileStats", "exists", "count"}

\* the data argument a method hands to wrapWithHooks
CallData(req) ==
    CASE req.op = "createFile" -> req.data
      [] req.op = "getAllFiles" -> req.options
      [] req.op = "getFileById" -> [id |-> req.id]
      [] req.op = "getFileByR2Key" -> [r2Key |-> req.r2Key]
      [] req.op = "updateFile" -> [id |-> req.id, data |-> req.data]
      [] req.op = "deleteFile" -> [id |-> req.id]
      [] req.op = "getFilesByUser" -> [userId |-> req.userId]
      [] req.op = "bulkDeleteFiles" -> [ids |-> req.ids]
      [] req.op = "bulkCreateFiles" -> [files |-> req.files]
      [] OTHER -> NoValue

\* a method that awaits its backend without the hook engine
DirectFrame(repo, req) ==
    [IdleCall EXCEPT !.pc = "operation", !.repo = repo, !.wrapped = FALSE,
                     !.operation = req.op, !.request = req]

\* the frame of a repository method at its first await
RepoFrame(repo, req) ==
    IF Wrapped(repo, req.op)
        THEN WrappedFrame(repo, req, OpHooks(req.op)[1], OpHooks(req.op)[2], CallData(req))
        ELSE DirectFrame(repo, req)

RepoHist(repo, req) ==
    IF Wrapped(repo, req.op)
        THEN WrappedHist(repo, req, OpHooks(req.op)[1], OpHooks(req.op)[2], CallData(req))
        ELSE [IdleHist EXCEPT !.startReq = requested[repo],
                              !.log = FrameLog(DirectFrame(repo, req))]

\* rows the request would insert
Inserting(req) ==
    CASE req.op = "createFile" -> 1
      [] req.op = "bulkCreateFiles" -> Len(req.files)
      [] OTHER -> 0

HasRoom(repo, req) == store[repo].nextId + Inserting(req) - 1 <= MaxFiles

\* sevenDaysAgo lies in the past: every row still to be created is younger
InThePast(repo, req) == req.op = "getFileStats" => req.since <= store[repo].nextId

\* what a caller knows of the table after a method settled with `out`:
\* records it was handed are in, records it deleted are out
Learn(known, req, out) ==
    IF out.kind # "return" THEN known
    ELSE CASE req.op = "createFile" -> known \cup {out.value.row}
           [] req.op = "bulkCreateFiles" ->
                known \cup {out.value.items[i] : i \in DOMAIN out.value.items}
           [] req.op = "updateFile" ->
                {r \in known : r.id # req.id} \cup {out.value.row}
           [] req.op = "deleteFile" -> {r \in known : r.id # req.id}
           [] req.op = "bulkDeleteFiles" ->
                {r \in known : \A i \in DOMAIN req.ids : req.ids[i] # r.id}
           [] OTHER -> known

\* the caller's knowledge once its previous call (if any) has settled
Learnt(c) ==
    IF call[c].pc = "done"
        THEN Learn(hist[c].known, call[c].request, call[c].outcome)
        ELSE hist[c].known

\* a caller invokes a repository method
StartRepo(c, repo, req) ==
    /\ call[c].pc \in {"idle", "done"}
    /\ HasRoom(repo, req)
    /\ InThePast(repo, req)
    /\ call' = [call EXCEPT ![c] = RepoFrame(repo, req)]
    /\ hist' = [hist EXCEPT ![c] = [RepoHist(repo, req) EXCEPT
                                        !.known = Learnt(c), !.storeAt = store[repo]]]
    /\ UNCHANGED <<hooks, requested, hookOps, store, bucket>>

\* the queries the awaited thunk has issued and not yet had answered
PendingQueries(k) ==
    LET plan == QueryPlan(k.repo, k.request)
        answered == {k.partial[i].part : i \in DOMAIN k.partial}
    IN
    IF OneByOne(k.repo) THEN {plan[Len(k.partial) + 1]}
    ELSE {plan[i] : i \in DOMAIN plan} \ answered

\* the answer to one query of getAllFiles or getFileStats over the table st
QueryPart(k, part, st) ==
    [part |-> part,
     rows |-> IF part = "data" THEN PageRows(k.repo, k.request.options, st) ELSE <<>>,
     n |-> CASE part = "total" -> CountRows(k.repo, k.request.options, st)
             [] part \in {"stats", "count"} -> Cardinality(st.rows)
             [] part = "recent" -> Cardinality(RecentRows(st, k.request.since))
             [] OTHER -> 0,
     sum |-> IF part \in {"stats", "sum"} THEN SizeValue(st, SumSizes(st.rows)) ELSE Num(0),
     avg |-> IF part \in {"stats", "avg"} THEN Average(st.rows) ELSE <<0, 1>>]

\* the answers held by a frame, in the order of the plan
RECURSIVE InPlanOrder(_, _)
InPlanOrder(plan, parts) ==
    IF plan = <<>> THEN <<>>
    ELSE (IF \E p \in parts : p.part = Head(plan)
            THEN <<CHOOSE p \in parts : p.part = Head(plan)>>
            ELSE <<>>) \o InPlanOrder(Tail(plan), parts)

\* { data, total } from the two answers
PageOf(parts) ==
    Page((CHOOSE p \in parts : p.part = "data").rows,
         (CHOOSE p \in parts : p.part = "total").n)

\* { totalFiles, totalSize, recentUploads, averageFileSize } from the answers
StatsOf(repo, parts) ==
    LET Of(name) == CHOOSE p \in parts : p.part = name IN
    IF repo = "drizzle"
        THEN Stats(Of("stats").n, Number(Of("stats").sum), Of("recent").n, Of("stats").avg)
        ELSE Stats(Of("count").n, OrZero(Of("sum").sum), Of("recent").n, Of("avg").avg)

\* the names of the backend queries
QueryParts == {"only", "data", "total", "stats", "recent", "count", "sum", "avg"}

\* the frame after the method's thunk (or, unwrapped, the method) has settled
Finish(k, out) ==
    IF k.wrapped THEN AfterOperation(k, out)
    ELSE [k EXCEPT !.pc = "done", !.outcome = out]

\* the backend answers a query the thunk of call c awaits, or rejects it
\* (`reject`): every await of a method has its rejection caught by the
\* method's catch, whatever was answered before
ResumeBackend(c, part, reject) ==
    LET k == [call[c] EXCEPT !.fault = reject]
        st == store[k.repo]
        plan == QueryPlan(k.repo, k.request)
        got == {k.partial[i] : i \in DOMAIN k.partial} \cup {QueryPart(k, part, st)}
        more == ~reject /\ Cardinality(got) < Len(plan)
        ans == IF Len(plan) = 1
                    THEN AdapterThunk(k.repo, k.request, st, reject)
               ELSE IF reject THEN Fails(st, "db")
               ELSE IF more THEN Answer(Pending, st)
               ELSE IF k.request.op = "getAllFiles" THEN Answer(Return(PageOf(got)), st)
               ELSE Answer(Return(StatsOf(k.repo, got)), st)
    IN
    /\ k.pc = "operation"
    /\ k.request.op \in ContractOps
    /\ part \in PendingQueries(k)
    /\ SkipsBackend(k.request) => ~reject
    /\ IF more
        THEN /\ call' = [call EXCEPT ![c].partial = InPlanOrder(plan, got)]
             /\ UNCHANGED <<hist, store>>
        ELSE /\ call' = [call EXCEPT ![c] = Finish(k, ans.out)]
             /\ hist' = [hist EXCEPT
                    ![c].thunk = ans.out,
                    ![c].queries = QueriesIssued(k.repo, k.request, Len(k.partial)),
                    ![c].log = @ \o <<Ev("end", "operation", "operationFn", k.context, ans.out)>>
                                 \o FrameLog(Finish(k, ans.out))]
             /\ store' = [store EXCEPT ![k.repo] = ans.st]
    /\ UNCHANGED <<hooks, requested, hookOps, bucket>>

-----------------------------------------------------------------------------
(* The hook engine under one wrapped call at a time, with the hook table     *)
(* changing while the call is in flight                                     *)

\* hook names the engine specification registers under
EngineNames == {"beforeCreate", "afterCreate", "onError", "intercept"}

\* constructor(hooks): any table over the create category, with one function
NoHooks == [n \in HookNames |-> None]

Init ==
    /\ \E h \in [EngineNames -> {None, "f"}] :
            hooks = [r \in Repos |->
                        IF r = "drizzle"
                            THEN [n \in HookNames |-> IF n \in EngineNames THEN h[n] ELSE None]
                            ELSE NoHooks]
    /\ requested = hooks
    /\ hookOps = 0
    /\ call = [c \in Calls |-> IdleCall]
    /\ hist = [c \in Calls |-> IdleHist]
    /\ store = [r \in Repos |-> EmptyStore]
    /\ bucket = EmptyBucket

Next ==
    \/ StartCall("c1")
    \/ \E out \in InterceptOutcomes : ResumeInterceptor("c1", out)
    \/ \E out \in HookOutcomes : ResumeHook("c1", out)
    \/ \E out \in ThunkOutcomes : ResumeOperation("c1", out)
    \/ \E n \in EngineNames, fn \in Fns : AddHook("drizzle", n, fn)
    \/ \E n \in EngineNames : RemoveHook("drizzle", n)

Spec == Init /\ [][Next]_vars

-----------------------------------------------------------------------------
(* The two adapters side by side: every contract operation is issued to the  *)
(* Drizzle repository and then, with the same arguments, to the Prisma       *)
(* repository, whose backend rejects the call when the Drizzle one rejected  *)
(* it; hooks and interceptors only observe                                   *)

\* every hook name registered
AllHooks == [n \in HookNames |-> "f"]

\* the request the Prisma repository has still to be given
Queued(req) == [IdleCall EXCEPT !.request = req]

\* the caller issues req to the Drizzle repository
StartPair(req) ==
    /\ call["c2"].pc = "done" \/ (call["c2"].pc = "idle" /\ call["c2"].request.op = None)
    /\ HasRoom("prisma", req)
    /\ InThePast("prisma", req)
    /\ call["c1"].pc \in {"idle", "done"}
    /\ HasRoom("drizzle", req)
    /\ InThePast("drizzle", req)
    /\ call' = [call EXCEPT !["c1"] = RepoFrame("drizzle", req),
                            !["c2"] = Queued(req)]
    /\ hist' = [hist EXCEPT
            !["c1"] = [RepoHist("drizzle", req) EXCEPT
                            !.known = Learnt("c1"), !.storeAt = store["drizzle"]],
            !["c2"] = [IdleHist EXCEPT !.known = Learnt("c2")]]
    /\ UNCHANGED <<hooks, requested, hookOps, store, bucket>>

\* and, once that has settled, the same request to the Prisma repository
StartSecond ==
    /\ call["c1"].pc = "done"
    /\ call["c2"].pc = "idle"
    /\ call["c2"].request.op # None
    /\ StartRepo("c2", "prisma", call["c2"].request)

InitAdapters ==
    /\ \E h \in {NoHooks, AllHooks} : hooks = [r \in Repos |-> h]
    /\ requested = hooks
    /\ hookOps = 0
    /\ call = [c \in Calls |-> IdleCall]
    /\ hist = [c \in Calls |-> IdleHist]
    /\ store = [r \in Repos |-> EmptyStore]
    /\ bucket = EmptyBucket

NextAdapters ==
    \/ \E req \in Requests : StartPair(req)
    \/ StartSecond
    \/ \E c \in Calls : ResumeInterceptor(c, Return(Val("same")))
    \/ \E c \in Calls : ResumeHook(c, Return(NoValue))
    \/ \E part \in QueryParts, reject \in BOOLEAN : ResumeBackend("c1", part, reject)
    \/ \E part \in QueryParts : ResumeBackend("c2", part, call["c1"].fault)

SpecAdapters == InitAdapters /\ [][NextAdapters]_vars

-----------------------------------------------------------------------------
(* One repository, Drizzle or Prisma, and one caller that issues contract    *)
(* operations one after the other; hooks and interceptors only observe; the  *)
(* file_size column of the Prisma table is an Int or a BigInt                *)

\* the caller issues req to the repository it works with
StartOne(repo, req) ==
    /\ call["c1"].repo \in {None, repo}
    /\ StartRepo("c1", repo, req)

NextStore ==
    \/ \E repo \in Repos, req \in Requests : StartOne(repo, req)
    \/ ResumeInterceptor("c1", Return(Val("same")))
    \/ ResumeHook("c1", Return(NoValue))
    \/ \E part \in QueryParts, reject \in BOOLEAN : ResumeBackend("c1", part, reject)

InitStore ==
    /\ \E h \in {NoHooks, AllHooks} : hooks = [r \in Repos |-> h]
    /\ requested = hooks
    /\ hookOps = 0
    /\ call = [c \in Calls |-> IdleCall]
    /\ hist = [c \in Calls |-> IdleHist]
    /\ \E t \in ColumnTypes : store = EmptyStores(t)
    /\ bucket = EmptyBucket

SpecStore == InitStore /\ [][NextStore]_vars

-----------------------------------------------------------------------------
(* One repository and one caller, with hooks and an interceptor that may     *)
(* throw and, for the interceptor, return a context of their own             *)

\* the caller creates, looks up and deletes records
HookedRequests == {r \in Requests : r.op \in {"createFile", "getFileById", "deleteFile"}}

NextHooked ==
    \/ \E repo \in Repos, req \in HookedRequests : StartOne(repo, req)
    \/ \E out \in InterceptOutcomes : ResumeInterceptor("c1", out)
    \/ \E out \in HookOutcomes : ResumeHook("c1", out)
    \/ \E part \in QueryParts, reject \in BOOLEAN : ResumeBackend("c1", part, reject)

SpecHooked == InitAdapters /\ [][NextHooked]_vars

-----------------------------------------------------------------------------
(* One wrapped call at a time on a repository whose hook table is fixed;     *)
(* every callback the call awaits settles, after which the call resumes      *)

\* constructor(hooks): the error-hook may be the function of the other hooks or another
InitFixed ==
    /\ \E h \in [EngineNames -> Fns \cup {None}] :
            /\ \A n \in EngineNames \ {"onError"} : h[n] # "g"
            /\ hooks = [r \in Repos |->
                        IF r = "drizzle"
                            THEN [n \in HookNames |-> IF n \in EngineNames THEN h[n] ELSE None]
                            ELSE NoHooks]
    /\ requested = hooks
    /\ hookOps = 0
    /\ call = [c \in Calls |-> IdleCall]
    /\ hist = [c \in Calls |-> IdleHist]
    /\ store = [r \in Repos |-> EmptyStore]
    /\ bucket = EmptyBucket

NextFixed ==
    \/ StartCall("c1")
    \/ \E out \in InterceptOutcomes : ResumeInterceptor("c1", out)
    \/ \E out \in HookOutcomes : ResumeHook("c1", out)
    \/ \E out \in ThunkOutcomes : ResumeOperation("c1", out)

\* a settled promise resumes the function awaiting it
Resumes ==
    /\ WF_vars(\E out \in InterceptOutcomes : ResumeInterceptor("c1", out))
    /\ WF_vars(\E out \in HookOutcomes : ResumeHook("c1", out))
    /\ WF_vars(\E out \in ThunkOutcomes : ResumeOperation("c1", out))

SpecFair == InitFixed /\ [][NextFixed]_vars /\ Resumes

-----------------------------------------------------------------------------
(* Two callers run wrapped calls on the same repository at the same time,    *)
(* each with arguments of its own; the calls interleave at their awaits      *)

StartConcurrent(c) ==
    /\ StartWrapped(c, "drizzle", [op |-> "operationFn"],
                    "beforeCreate", "afterCreate", Val(c))
    /\ UNCHANGED <<hooks, requested, hookOps, store, bucket>>

NextConcurrent ==
    \E c \in Calls :
        \/ StartConcurrent(c)
        \/ \E out \in InterceptOutcomes : ResumeInterceptor(c, out)
        \/ \E out \in HookOutcomes : ResumeHook(c, out)
        \/ \E out \in ThunkOutcomes : ResumeOperation(c, out)

SpecConcurrent == InitFixed /\ [][NextConcurrent]_vars

-----------------------------------------------------------------------------
(* One repository and one caller that creates and updates records; the       *)
(* interceptor and the before-hook write to the context they are handed      *)

WriteRequests == {r \in Requests : r.op \in {"createFile", "updateFile"}}

\* the caller's argument object after a callback has set a field of it
Overwritten(req) == [req EXCEPT !.data = [@ EXCEPT !.originalFilename = <<"a">>]]

\* context.data is the caller's `data` (createFile), or an object holding it
\* (updateFile), and not something a callback has put in its place
SharesArgument(k) == k.context.data = CallData(k.request)

\* the callback awaited before the thunk sets a field of the argument it
\* reaches through context.data; the thunk's closure holds the same object
HookWritesArgument(c) ==
    LET k == call[c]
        req == Overwritten(k.request)
    IN
    /\ k.pc \in {"intercept_pre", "before"} /\ k.hook # None
    /\ k.request.op \in {"createFile", "updateFile"}
    /\ SharesArgument(k)
    /\ req # k.request
    /\ call' = [call EXCEPT ![c] = [k EXCEPT !.request = req,
                                             !.context = [@ EXCEPT !.data = CallData(req)],
                                             !.hookCtx = [@ EXCEPT !.data = CallData(req)]]]
    /\ UNCHANGED <<hooks, requested, hookOps, hist, store, bucket>>

\* the callback awaited before the thunk assigns context.data
HookAssignsData(c) ==
    LET k == call[c] IN
    /\ k.pc \in {"intercept_pre", "before"} /\ k.hook # None
    /\ k.request.op \in {"createFile", "updateFile"}
    /\ k.context.data # Val("other")
    /\ call' = [call EXCEPT ![c] = [k EXCEPT !.context = [@ EXCEPT !.data = Val("other")],
                                             !.hookCtx = [@ EXCEPT !.data = Val("other")]]]
    /\ UNCHANGED <<hooks, requested, hookOps, hist, store, bucket>>

NextWriting ==
    \/ \E repo \in Repos, req \in WriteRequests : StartOne(repo, req)
    \/ ResumeInterceptor("c1", Return(Val("same")))
    \/ ResumeHook("c1", Return(NoValue))
    \/ \E reject \in BOOLEAN : ResumeBackend("c1", "only", reject)
    \/ HookWritesArgument("c1")
    \/ HookAssignsData("c1")

SpecWriting == InitAdapters /\ [][NextWriting]_vars

-----------------------------------------------------------------------------
(* One repository with two callers at the same time: one lists or counts     *)
(* the files, the other creates and deletes records; the backend answers     *)
(* every query                                                               *)

\* the reads that await several queries: getAllFiles with offset 0 and no
\* filter (the default page, or a page of one) and getFileStats
ListRequests ==
    {r \in Requests :
        \/ r.op = "getAllFiles" /\ r.options \in {NoFilter, [NoFilter EXCEPT !.limit = 1]}
        \/ r.op = "getFileStats" /\ r.since = 1}

ChangeRequests ==
    {r \in Requests : r.op \in {"createFile", "deleteFile", "bulkDeleteFiles"}}

\* both callers hold the same repository instance
SameRepository(repo) == \A c \in Calls : call[c].repo \in {None, repo}

StartList(repo, req) ==
    /\ SameRepository(repo)
    /\ StartRepo("c1", repo, req)

StartChange(repo, req) ==
    /\ SameRepository(repo)
    /\ StartRepo("c2", repo, req)

NextRacing ==
    \/ \E repo \in Repos, req \in ListRequests : StartList(repo, req)
    \/ \E repo \in Repos, req \in ChangeRequests : StartChange(repo, req)
    \/ \E c \in Calls : ResumeInterceptor(c, Return(Val("same")))
    \/ \E c \in Calls : ResumeHook(c, Return(NoValue))
    \/ \E c \in Calls, part \in QueryParts : ResumeBackend(c, part, FALSE)

\* the repository is constructed without hooks
InitUnhooked == InitAdapters /\ hooks = [r \in Repos |-> NoHooks]

SpecRacing == InitUnhooked /\ [][NextRacing]_vars

-----------------------------------------------------------------------------
(* FlexibleFileService over a repository without hooks and the R2 bucket:    *)
(* two callers, one call of uploadFile, saveFileRecord or deleteFile each,    *)
(* interleaving at the awaits of the service methods                          *)

\* userId "" stands for a call without userId
DeleteRequests ==
    {[op |-> "service.deleteFile", fileId |-> i, userId |-> u] :
        i \in Ids, u \in {"", "u1", "u2"}}

\* config.maxFileSize of getDefaultFileServiceConfig
MaxFileSize == 10 * 1024 * 1024

\* contentType.startsWith("image/")
IsImage(contentType) == contentType \in {"image/png", "image/bmp"}

\* ImageUploadSchema: a JPEG, PNG, WebP or GIF image of at most 10 MB (its
\* `size` replaces the one of FileUploadSchema: no lower bound)
ImageUploadSchema(file) ==
    /\ file.contentType = "image/png"
    /\ file.size <= 10 * 1024 * 1024

\* uploadFile(userId, request): `size` and `contentType` are those of
\* request.file; `data` holds the user, the file's name and the size the
\* image has once optimized (its key and url are made by the bucket service)
UploadRequests ==
    {[op |-> "service.uploadFile", data |-> d, size |-> n, contentType |-> t] :
        d \in {x \in Inserts : x.fileSize > 0}, n \in {0, 1, MaxFileSize + 1},
        t \in {"image/png", "image/bmp", "text/plain"}}

\* saveFileRecord(userId, data)
SaveRequests == {[op |-> "service.saveFileRecord", data |-> d] : d \in Inserts}

\* an uploaded file: its object in the bucket
UploadedBucket == [keys |-> {Insert1.r2Key}, deletes |-> 0, expired |-> {}]

\* new StorageError({code, cause, metadata: {fileId, ...}}) of the service;
\* the cause is given by its code
ServiceError(code, fileId, cause) ==
    StorageError(code, <<fileId>>, IF cause.t = "StorageError" THEN cause.code ELSE cause.t)

\* { file, r2Deleted }
DeleteOutcome(file, r2Deleted) == [t |-> "deleteResult", file |-> file, r2Deleted |-> r2Deleted]

ServiceFrame(repo, req, pc) ==
    [IdleCall EXCEPT !.pc = pc, !.repo = repo, !.wrapped = FALSE,
                     !.operation = req.op, !.request = req]

\* the service call settles; `fault` tells whether the backend it awaited failed
Settle(k, fault, out) == [k EXCEPT !.pc = "done", !.fault = @ \/ fault, !.outcome = out]

\* deleteFile(fileId, userId) is called and awaits repository.getFileById
StartDelete(c, repo, req) ==
    /\ call[c].pc = "idle"
    /\ SameRepository(repo)
    /\ call' = [call EXCEPT ![c] = ServiceFrame(repo, req, "getFileById")]
    /\ hist' = [hist EXCEPT ![c] = [IdleHist EXCEPT !.storeAt = store[repo],
                                                    !.bucketAt = bucket]]
    /\ UNCHANGED <<hooks, requested, hookOps, store, bucket>>

\* the frame once repository.deleteFile has resolved: the record is gone and
\* the service has yet to resume and call r2Service.deleteFile(file.r2Key)
AfterRecordDeleted(k) == [k EXCEPT !.pc = "deleted"]

\* repository.getFileById settles: NOT_FOUND, FORBIDDEN, or on to
\* repository.deleteFile(file.id)
LookupSettles(c, fault) ==
    LET k == call[c]
        ans == AdapterThunk(k.repo, [op |-> "getFileById", id |-> k.request.fileId],
                            store[k.repo], fault).out
    IN
    /\ k.pc = "getFileById"
    /\ call' = [call EXCEPT ![c] =
            IF ans.kind = "throw" THEN Settle(k, fault, ans)
            ELSE IF ans.value = Null
                THEN Settle(k, fault, Throw(StorageError("NOT_FOUND", <<k.request.fileId>>, "none")))
            ELSE IF k.request.userId # "" /\ ans.value.row.uploadedBy # k.request.userId
                THEN Settle(k, fault, Throw(StorageError("FORBIDDEN", <<k.request.fileId>>, "none")))
            ELSE [k EXCEPT !.pc = "repository.deleteFile", !.result = ans.value]]
    /\ UNCHANGED <<hooks, requested, hookOps, hist, store, bucket>>

\* the database answers the delete of repository.deleteFile: its failure is
\* wrapped, otherwise the record is gone
RecordDeleteSettles(c, fault) ==
    LET k == call[c]
        ans == AdapterThunk(k.repo, [op |-> "deleteFile", id |-> k.result.row.id],
                            store[k.repo], fault)
    IN
    /\ k.pc = "repository.deleteFile"
    /\ store' = [store EXCEPT ![k.repo] = ans.st]
    /\ IF ans.out.kind = "throw"
        THEN /\ call' = [call EXCEPT ![c] =
                    Settle(k, fault, Throw(ServiceError("INTERNAL_SERVER_ERROR", k.request.fileId,
                                                 ans.out.value)))]
        ELSE call' = [call EXCEPT ![c] = AfterRecordDeleted(k)]
    /\ UNCHANGED <<hooks, requested, hookOps, hist, bucket>>

\* the service resumes after repository.deleteFile and r2Service.deleteFile
\* sends the DeleteObject command
SendBlobDelete(c) ==
    LET k == call[c] IN
    /\ k.pc = "deleted"
    /\ call' = [call EXCEPT ![c] = [k EXCEPT !.pc = "r2.deleteFile"]]
    /\ bucket' = [bucket EXCEPT !.deletes = @ + 1]
    /\ UNCHANGED <<hooks, requested, hookOps, hist, store>>

\* r2Service.deleteFile settles: the bucket has removed the object (also when
\* it held none under the key), or the command failed and the failure is wrapped
BlobDeleteSettles(c, fault) ==
    LET k == call[c] IN
    /\ k.pc = "r2.deleteFile"
    /\ IF fault
        THEN /\ call' = [call EXCEPT ![c] =
                    Settle(k, fault, Throw(ServiceError("INTERNAL_SERVER_ERROR", k.request.fileId,
                                                 Internal("s3"))))]
             /\ UNCHANGED bucket
        ELSE /\ call' = [call EXCEPT ![c] = Settle(k, fault, Return(DeleteOutcome(k.result, TRUE)))]
             /\ bucket' = [bucket EXCEPT !.keys = @ \ {k.result.row.r2Key},
                                         !.expired = @ \ {k.result.row.r2Key}]
    /\ UNCHANGED <<hooks, requested, hookOps, hist, store>>

\* uploadFile(userId, request) is called: a file that is too large or no
\* image is refused by the service, one of another image format by the
\* bucket service, otherwise r2Service.uploadFile optimizes the image and
\* sends the PutObject command
StartUpload(c, repo, req) ==
    /\ call[c].pc = "idle"
    /\ SameRepository(repo)
    /\ HasRoom(repo, [op |-> "createFile"])
    /\ call' = [call EXCEPT ![c] =
            IF req.size > MaxFileSize \/ ~IsImage(req.contentType)
                THEN Settle(ServiceFrame(repo, req, "idle"), FALSE,
                            Throw(StorageError("BAD_REQUEST", <<>>, "none")))
            ELSE IF ~ImageUploadSchema(req)
                THEN Settle(ServiceFrame(repo, req, "idle"), FALSE,
                            Throw(Internal("BAD_REQUEST")))
            ELSE ServiceFrame(repo, req, "r2.uploadFile")]
    /\ hist' = [hist EXCEPT ![c] = [IdleHist EXCEPT !.storeAt = store[repo],
                                                    !.bucketAt = bucket]]
    /\ UNCHANGED <<hooks, requested, hookOps, store, bucket>>

\* saveFileRecord(userId, data) is called and awaits repository.createFile
StartSave(c, repo, req) ==
    /\ call[c].pc = "idle"
    /\ SameRepository(repo)
    /\ HasRoom(repo, [op |-> "createFile"])
    /\ call' = [call EXCEPT ![c] = ServiceFrame(repo, req, "repository.createFile")]
    /\ hist' = [hist EXCEPT ![c] = [IdleHist EXCEPT !.storeAt = store[repo],
                                                    !.bucketAt = bucket]]
    /\ UNCHANGED <<hooks, requested, hookOps, store, bucket>>

\* r2Service.uploadFile settles. optimizeImage has handed back the optimized
\* image or, when sharp failed, the file it was given (`optimized`); the
\* bucket holds that file under the key generateFileKey made for it (from the
\* clock and Math.random) and uploadFile goes on to repository.createFile
\* with the key and the size of the file that was put, or the PutObject
\* command failed and the StorageError of the bucket service is passed on
UploadSettles(c, key, optimized, fault) ==
    LET k == call[c]
        processedFile == [size |-> IF optimized THEN k.request.data.fileSize
                                   ELSE k.request.size]
    IN
    /\ k.pc = "r2.uploadFile"
    /\ IF fault
        THEN /\ call' = [call EXCEPT ![c] = Settle(k, fault, Throw(Internal("s3")))]
             /\ UNCHANGED bucket
        ELSE /\ call' = [call EXCEPT ![c] =
                    [k EXCEPT !.pc = "repository.createFile",
                              !.result = [key |-> key, size |-> processedFile.size]]]
             /\ bucket' = [bucket EXCEPT !.keys = @ \cup {key}, !.expired = @ \ {key}]
    /\ UNCHANGED <<hooks, requested, hookOps, hist, store>>

\* repository.createFile settles: the record is returned; its failure is
\* passed on by uploadFile and wrapped by saveFileRecord; uploadFile records
\* the key, the size and the url of the uploaded object
RecordCreateSettles(c, fault) ==
    LET k == call[c]
        uploadResult == k.result
        fileData == IF k.operation = "service.uploadFile"
                        THEN [k.request.data EXCEPT
                                !.r2Key = uploadResult.key,
                                !.fileSize = uploadResult.size,
                                !.publicUrl = (CHOOSE d \in Inserts :
                                                    d.r2Key = uploadResult.key).publicUrl]
                        ELSE k.request.data
        ans == AdapterThunk(k.repo, [op |-> "createFile", data |-> fileData],
                            store[k.repo], fault)
    IN
    /\ k.pc = "repository.createFile"
    /\ HasRoom(k.repo, [op |-> "createFile"])
    /\ store' = [store EXCEPT ![k.repo] = ans.st]
    /\ call' = [call EXCEPT ![c] =
            IF ans.out.kind = "return" \/ k.operation = "service.uploadFile"
                THEN Settle(k, fault, ans.out)
                ELSE Settle(k, fault, Throw(StorageError("INTERNAL_SERVER_ERROR", <<>>,
                                                         ans.out.value.code)))]
    /\ UNCHANGED <<hooks, requested, hookOps, hist, bucket>>

\* the keys of objects, in the order in which the bucket lists them
KeyOrder == <<"k1", "k2">>
BucketKeys == {KeyOrder[i] : i \in 1..Len(KeyOrder)}

\* calls of the methods of service.r2Service that write to the bucket:
\* uploadFile(file, options) and uploadMultipleFiles(files, options) with
\* options that are public, ask for no thumbnail and no optimization and may
\* carry customMetadata.expiresAt (`expired`: it has passed), `valid` telling
\* whether the file meets FileUploadSchema and `keys` being the keys
\* generateFileKey gives the files, in the order of the argument;
\* deleteFile(key); deleteMultipleFiles(keys); copyFile(sourceKey,
\* destinationKey); cleanupExpiredFiles()
BucketRequests ==
    LET Lists(lengths) == UNION {[1..n -> BucketKeys] : n \in lengths} IN
    {[op |-> "r2.uploadFile", keys |-> ks, valid |-> v, expired |-> e] :
        ks \in Lists({1}), v \in BOOLEAN, e \in BOOLEAN}
    \cup {[op |-> "r2.uploadMultipleFiles", keys |-> ks, valid |-> TRUE, expired |-> e] :
        ks \in Lists(0..Len(KeyOrder)), e \in BOOLEAN}
    \cup {[op |-> "r2.deleteFile", key |-> k] : k \in BucketKeys}
    \cup {[op |-> "r2.deleteMultipleFiles", keys |-> ks] : ks \in Lists(1..Len(KeyOrder))}
    \cup {[op |-> "r2.copyFile", sourceKey |-> k, destinationKey |-> d] :
        k \in BucketKeys, d \in BucketKeys}
    \cup {[op |-> "r2.cleanupExpiredFiles"]}

\* UploadResult and DeleteResult of the bucket service
UploadResult(key) == [t |-> "UploadResult", key |-> key]
DeleteResult(key, deleted) == [t |-> "DeleteResult", key |-> key, deleted |-> deleted]

\* the given keys as a list, in the order of the bucket
InKeyOrder(keys) == SelectSeq(KeyOrder, LAMBDA k : k \in keys)

\* files.map((file) => this.uploadFile(...)), once all have resolved: the
\* results in the order of the argument
UploadResults(keys) == List([i \in 1..Len(keys) |-> UploadResult(keys[i])])

\* keys.map((key) => ({key, deleted: !result.Errors?.some(...)})): the
\* results in the order of the argument
DeleteResults(keys, errors) ==
    List([i \in 1..Len(keys) |-> DeleteResult(keys[i], keys[i] \notin errors)])

\* a method of the bucket service is called; up to its first await it
\* validates the file and sends its first commands
StartBucket(c, req) ==
    LET k == ServiceFrame(None, req, "idle") IN
    /\ call[c].pc = "idle"
    /\ call' = [call EXCEPT ![c] =
            CASE req.op = "r2.uploadFile" ->
                    IF req.valid THEN [k EXCEPT !.pc = "r2.put", !.result = DOMAIN req.keys]
                    ELSE Settle([k EXCEPT !.result = {}], FALSE,
                                Throw(Internal("BAD_REQUEST")))
              [] req.op = "r2.uploadMultipleFiles" ->
                    IF req.keys # <<>>
                        THEN [k EXCEPT !.pc = "r2.put", !.result = DOMAIN req.keys]
                    ELSE Settle([k EXCEPT !.result = {}], FALSE, Return(List(<<>>)))
              [] req.op = "r2.cleanupExpiredFiles" -> [k EXCEPT !.pc = "r2.list"]
              [] OTHER -> [k EXCEPT !.pc = "r2.command"]]
    /\ bucket' = [bucket EXCEPT !.deletes = IF req.op = "r2.deleteFile" THEN @ + 1 ELSE @]
    /\ hist' = [hist EXCEPT ![c] = [IdleHist EXCEPT !.bucketAt = bucket]]
    /\ UNCHANGED <<hooks, requested, hookOps, store>>

\* the bucket answers the PutObject command for the i-th file of uploadFile
\* or uploadMultipleFiles; the Promise.all of uploadMultipleFiles is rejected
\* by the first command that fails, the commands still out are answered later
PutSettles(c, i, fault) ==
    LET k == call[c]
        key == k.request.keys[i]
        left == k.result \ {i}
        out == IF k.outcome # Pending THEN k.outcome
               ELSE IF fault
                   THEN Throw(Internal(IF k.operation = "r2.uploadFile"
                                       THEN "s3" ELSE "INTERNAL_SERVER_ERROR"))
               ELSE IF left # {} THEN Pending
               ELSE IF k.operation = "r2.uploadFile" THEN Return(UploadResult(key))
               ELSE Return(UploadResults(k.request.keys))
    IN
    /\ k.operation \in {"r2.uploadFile", "r2.uploadMultipleFiles"}
    /\ i \in k.result
    /\ call' = [call EXCEPT ![c] =
            [k EXCEPT !.result = left, !.outcome = out,
                      !.fault = IF k.outcome = Pending THEN @ \/ fault ELSE @,
                      !.pc = IF out = Pending THEN @ ELSE "done"]]
    /\ bucket' = IF fault THEN bucket
                 ELSE [bucket EXCEPT !.keys = @ \cup {key},
                                     !.expired = IF k.request.expired THEN @ \cup {key}
                                                 ELSE @ \ {key}]
    /\ UNCHANGED <<hooks, requested, hookOps, hist, store>>

\* the bucket answers the command of deleteFile, deleteMultipleFiles or
\* copyFile; `errors` are the keys the answer to DeleteObjects reports as not
\* deleted
CommandSettles(c, fault, errors) ==
    LET k == call[c]
        req == k.request
    IN
    /\ k.pc = "r2.command"
    /\ CASE req.op = "r2.deleteFile" ->
            /\ errors = {}
            /\ IF fault
                THEN /\ call' = [call EXCEPT ![c] = Settle(k, fault, Throw(Internal("s3")))]
                     /\ UNCHANGED bucket
                ELSE /\ call' = [call EXCEPT ![c] =
                            Settle(k, fault, Return(DeleteResult(req.key, TRUE)))]
                     /\ bucket' = [bucket EXCEPT !.keys = @ \ {req.key},
                                                 !.expired = @ \ {req.key}]
         [] req.op = "r2.deleteMultipleFiles" ->
            /\ errors \subseteq {req.keys[i] : i \in DOMAIN req.keys}
            /\ fault => errors = {}
            /\ IF fault
                THEN /\ call' = [call EXCEPT ![c] = Settle(k, fault, Throw(Internal("s3")))]
                     /\ UNCHANGED bucket
                ELSE /\ call' = [call EXCEPT ![c] =
                            Settle(k, fault, Return(DeleteResults(req.keys, errors)))]
                     /\ bucket' = [bucket EXCEPT
                            !.keys = @ \ ({req.keys[i] : i \in DOMAIN req.keys} \ errors),
                            !.expired = @ \ ({req.keys[i] : i \in DOMAIN req.keys} \ errors)]
         [] req.op = "r2.copyFile" ->
            /\ errors = {}
            /\ IF fault \/ req.sourceKey \notin bucket.keys
                THEN /\ call' = [call EXCEPT ![c] = Settle(k, fault, Throw(Internal("s3")))]
                     /\ UNCHANGED bucket
                ELSE /\ call' = [call EXCEPT ![c] = Settle(k, fault, Return(NoValue))]
                     /\ bucket' = [bucket EXCEPT
                            !.keys = @ \cup {req.destinationKey},
                            !.expired = IF req.sourceKey \in @
                                        THEN @ \cup {req.destinationKey}
                                        ELSE @ \ {req.destinationKey}]
    /\ UNCHANGED <<hooks, requested, hookOps, hist, store>>

\* cleanupExpiredFiles: the bucket answers listFiles; with no object listed
\* no file has expired and 0 is returned
ListSettles(c, fault) ==
    LET k == call[c]
        listed == InKeyOrder(bucket.keys)
    IN
    /\ k.pc = "r2.list"
    /\ call' = [call EXCEPT ![c] =
            IF fault THEN Settle(k, fault, Throw(Internal("INTERNAL_SERVER_ERROR")))
            ELSE IF listed = <<>> THEN Settle(k, fault, Return(Num(0)))
            ELSE [k EXCEPT !.pc = "r2.metadata",
                           !.result = [listed |-> listed, expiredFiles |-> {}]]]
    /\ UNCHANGED <<hooks, requested, hookOps, hist, store, bucket>>

\* cleanupExpiredFiles: the bucket answers getFileMetadata for the next listed
\* object; an object it cannot describe is passed over; after the last one
\* the expired objects are handed to deleteMultipleFiles
MetadataSettles(c, fault) ==
    LET k == call[c]
        key == Head(k.result.listed)
        rest == Tail(k.result.listed)
        expiredFiles == IF ~fault /\ key \in bucket.expired
                            THEN k.result.expiredFiles \cup {key}
                            ELSE k.result.expiredFiles
        next == [k EXCEPT !.fault = @ \/ fault,
                          !.result = [listed |-> rest, expiredFiles |-> expiredFiles]]
    IN
    /\ k.pc = "r2.metadata"
    /\ fault \/ key \in bucket.keys
    /\ call' = [call EXCEPT ![c] =
            IF rest # <<>> THEN next
            ELSE IF expiredFiles = {} THEN Settle(next, fault, Return(Num(0)))
            ELSE [next EXCEPT !.pc = "r2.deleteBatch"]]
    /\ UNCHANGED <<hooks, requested, hookOps, hist, store, bucket>>

\* cleanupExpiredFiles: the bucket answers the DeleteObjects command for the
\* expired objects; a batch that failed is not counted, one that was answered
\* is counted whole
BatchDeleteSettles(c, fault, errors) ==
    LET k == call[c]
        keys == k.result.expiredFiles
    IN
    /\ k.pc = "r2.deleteBatch"
    /\ errors \subseteq keys
    /\ fault => errors = {}
    /\ call' = [call EXCEPT ![c] =
            Settle(k, fault, Return(Num(IF fault THEN 0 ELSE Cardinality(keys))))]
    /\ bucket' = IF fault THEN bucket
                 ELSE [bucket EXCEPT !.keys = @ \ (keys \ errors),
                                     !.expired = @ \ (keys \ errors)]
    /\ UNCHANGED <<hooks, requested, hookOps, hist, store>>

\* the service over an empty table and bucket, or after one file has been
\* uploaded through it
InitService ==
    /\ hooks = [r \in Repos |-> NoHooks]
    /\ requested = hooks
    /\ hookOps = 0
    /\ call = [c \in Calls |-> IdleCall]
    /\ hist = [c \in Calls |-> IdleHist]
    /\ \E t \in ColumnTypes :
        \/ /\ store = EmptyStores(t)
           /\ bucket = EmptyBucket
        \/ /\ store = [r \in Repos |-> InsertAll(EmptyStores(t)[r], <<Insert1>>)]
           /\ bucket = UploadedBucket

NextService ==
    \/ \E c \in Calls, repo \in Repos, req \in DeleteRequests : StartDelete(c, repo, req)
    \/ \E c \in Calls, repo \in Repos, req \in UploadRequests : StartUpload(c, repo, req)
    \/ \E c \in Calls, repo \in Repos, req \in SaveRequests : StartSave(c, repo, req)
    \/ \E c \in Calls, fault \in BOOLEAN : LookupSettles(c, fault)
    \/ \E c \in Calls, fault \in BOOLEAN : RecordDeleteSettles(c, fault)
    \/ \E c \in Calls : SendBlobDelete(c)
    \/ \E c \in Calls, fault \in BOOLEAN : BlobDeleteSettles(c, fault)
    \/ \E c \in Calls, key \in BucketKeys, optimized \in BOOLEAN, fault \in BOOLEAN :
            UploadSettles(c, key, optimized, fault)
    \/ \E c \in Calls, fault \in BOOLEAN : RecordCreateSettles(c, fault)
    \/ \E c \in Calls, req \in BucketRequests : StartBucket(c, req)
    \/ \E c \in Calls, i \in 1..Len(KeyOrder), fault \in BOOLEAN : PutSettles(c, i, fault)
    \/ \E c \in Calls, fault \in BOOLEAN, errors \in SUBSET BucketKeys :
            CommandSettles(c, fault, errors)
    \/ \E c \in Calls, fault \in BOOLEAN : ListSettles(c, fault)
    \/ \E c \in Calls, fault \in BOOLEAN : MetadataSettles(c, fault)
    \/ \E c \in Calls, fault \in BOOLEAN, errors \in SUBSET BucketKeys :
            BatchDeleteSettles(c, fault, errors)

SpecService == InitService /\ [][NextService]_vars

-----------------------------------------------------------------------------
(* Reading the history of a call *)

Done(c) == call[c].pc = "done"

Log(c) == hist[c].log

MainStages == <<"intercept_pre", "before", "operation", "intercept_post", "after">>

Rank(stage) == CHOOSE i \in DOMAIN MainStages : MainStages[i] = stage

IsMain(stage) == \E i \in DOMAIN MainStages : MainStages[i] = stage

\* the invocations of call c in the given stages
Starts(c, stages) ==
    SelectSeq(Log(c), LAMBDA e : e.ev = "start" /\ e.stage \in stages)

\* a callback of call c in one of the given stages threw
Threw(c, stages) ==
    \E i \in DOMAIN Log(c) :
        Log(c)[i].ev = "end" /\ Log(c)[i].stage \in stages /\ Log(c)[i].out.kind = "throw"

\* the hook name a stage of call c reads
NameOf(c, stage) ==
    CASE stage \in {"intercept_pre", "intercept_post"} -> "intercept"
      [] stage = "before" -> hist[c].beforeName
      [] stage = "after" -> hist[c].afterName
      [] OTHER -> "onError"

\* how often call c executed its operation thunk
Runs(c) == Len(Starts(c, {"operation"}))

\* the operation thunk of call c settled as `kind`
ThunkIs(c, kind) == hist[c].thunk.kind = kind

-----------------------------------------------------------------------------
(* Claims about the hook engine *)

\* C1 (as claimed): a finished wrapped call returns exactly what its operation
\* thunk returned and raises exactly what its thunk raised, whatever the hooks
\* and the interceptor did.
C1_OutcomeIsThunkOutcome ==
    \A c \in Calls : Done(c) => call[c].outcome = hist[c].thunk

\* C2 (as claimed): when the thunk returned normally and a before-hook or
\* after-hook threw, the wrapped call still returns the thunk's result.
C2_HookIsolation ==
    \A c \in Calls :
        (Done(c) /\ ThunkIs(c, "return") /\ Threw(c, {"before", "after"}))
            => call[c].outcome = Return(hist[c].thunk.value)

\* C3 (as claimed): when the thunk threw E and an error-hook was registered
\* for the whole call, the error-hook was invoked exactly once with a context
\* whose error field is E.
C3_ErrorHookOnce ==
    \A c \in Calls :
        (Done(c) /\ ThunkIs(c, "throw")
            /\ hist[c].startReq["onError"] # None /\ "onError" \notin hist[c].changed)
            => Len(SelectSeq(Starts(c, {"onError", "hook_error"}),
                             LAMBDA e : e.ctx.error = hist[c].thunk.value)) = 1

\* C4 (as claimed): when the thunk threw E the wrapped call raises E itself.
C4_RethrowsSameError ==
    \A c \in Calls :
        (Done(c) /\ ThunkIs(c, "throw")) => call[c].outcome = Throw(hist[c].thunk.value)

\* C5: in a call whose thunk does not fail, every callback has settled before
\* the next one is called, the stages are called in the order interceptor
\* (pre), before-hook, thunk, interceptor (post), after-hook, and a call that
\* returned has run its thunk and the before- and after-hook it was given.
C5_StagesInOrder ==
    \A c \in Calls :
        ~ThunkIs(c, "throw") =>
            /\ \A i \in DOMAIN Log(c) :
                    IF i % 2 = 1 THEN Log(c)[i].ev = "start"
                    ELSE /\ Log(c)[i].ev = "end"
                         /\ Log(c)[i].stage = Log(c)[i - 1].stage
            /\ LET main == Starts(c, {"intercept_pre", "before", "operation", "intercept_post", "after"})
               IN \A i, j \in DOMAIN main :
                    i < j => Rank(main[i].stage) < Rank(main[j].stage)
            /\ (Done(c) /\ call[c].outcome.kind = "return") =>
                    /\ Runs(c) = 1
                    /\ call[c].beforeHook # None => Len(Starts(c, {"before"})) = 1
                    /\ call[c].afterHook # None => Len(Starts(c, {"after"})) = 1

\* a call returned after all five stages were invoked
C5_Witness ==
    \E c \in Calls :
        /\ Done(c) /\ call[c].outcome.kind = "return"
        /\ Len(Starts(c, {"intercept_pre", "before", "operation", "intercept_post", "after"})) = 5

\* C6: a wrapped call runs its operation thunk exactly once: never twice, and
\* once by the time the call has finished, also when the interceptor or a
\* hook threw.
C6_ThunkRunsOnce ==
    \A c \in Calls :
        /\ Runs(c) <= 1
        /\ Done(c) => Runs(c) = 1

\* a call finished although its interceptor and its before-hook threw
C6_Witness ==
    \E c \in Calls :
        /\ Done(c) /\ Runs(c) = 1
        /\ Threw(c, {"before"}) /\ Threw(c, {"intercept_pre"})

\* C7 (as claimed): every callback a call invokes is the one that was
\* registered under its name when the call started.
C7_InFlightUsesStartHooks ==
    \A c \in Calls :
        \A i \in DOMAIN Log(c) :
            (Log(c)[i].ev = "start" /\ Log(c)[i].stage # "operation")
                => Log(c)[i].fn = hist[c].startReq[NameOf(c, Log(c)[i].stage)]

\* C8 (as claimed): for a hook name whose registration has not changed since
\* the call started, the call invokes only the function that the last addHook
\* before its start registered (none after a removeHook), and it invokes that
\* function at each stage of that name: the interceptor before and after the
\* operation, the before-hook before it, the after-hook when the operation
\* has returned and the error-hook when it has thrown.
C8_HooksTakeEffectOnNextCall ==
    \A c \in Calls :
        /\ \A i \in DOMAIN Log(c) :
            (/\ Log(c)[i].ev = "start" /\ Log(c)[i].stage # "operation"
             /\ NameOf(c, Log(c)[i].stage) \in HookNames \ hist[c].changed)
                => Log(c)[i].fn = hist[c].startReq[NameOf(c, Log(c)[i].stage)]
        /\ \A n \in HookNames \ hist[c].changed :
            hist[c].startReq[n] # None =>
                /\ (n = "intercept" /\ call[c].pc # "idle")
                        => Len(Starts(c, {"intercept_pre"})) = 1
                /\ (n = "intercept" /\ Done(c) /\ ThunkIs(c, "return"))
                        => Len(Starts(c, {"intercept_post"})) = 1
                /\ (n = hist[c].beforeName /\ call[c].pc \notin {"idle", "intercept_pre"})
                        => Len(Starts(c, {"before"})) = 1
                /\ (n = hist[c].afterName /\ Done(c) /\ ThunkIs(c, "return"))
                        => Len(Starts(c, {"after"})) = 1
                /\ (n = "onError" /\ Done(c) /\ ThunkIs(c, "throw"))
                        => Len(Starts(c, {"onError"})) = 1

-----------------------------------------------------------------------------
(* The adapters against the repository contract *)

\* what a caller can tell of a settled call: the value it resolved to, or
\* the kind of error it rejected with
Observable(out) ==
    IF out.kind = "return" THEN [kind |-> "return", returned |-> out.value]
    ELSE [kind |-> "throw",
          code |-> IF out.value.t = "StorageError" THEN out.value.code ELSE out.value.t]

\* C9: every operation of the repository contract, in each adapter, is routed
\* through the hook engine: a registered interceptor runs around it (once
\* before it and, when it succeeds, once after it) and a registered error-hook
\* is invoked when it fails.
C9_EveryOperationRouted ==
    \A c \in Calls :
        (Done(c) /\ call[c].request.op \in ContractOps) =>
            /\ hist[c].startReq["intercept"] # None =>
                    /\ Len(Starts(c, {"intercept_pre"})) = 1
                    /\ ThunkIs(c, "return") => Len(Starts(c, {"intercept_post"})) = 1
            /\ (hist[c].startReq["onError"] # None /\ ThunkIs(c, "throw"))
                    => Len(Starts(c, {"onError"})) = 1

\* C10: the Drizzle adapter and the Prisma adapter are interchangeable: given
\* the same sequence of contract operations with the same arguments over
\* stores that started equal, a request settles with the same observable
\* outcome (returned value or error kind) in both adapters.
C10_AdaptersAgree ==
    (/\ Done("c1") /\ Done("c2")
     /\ call["c1"].repo = "drizzle" /\ call["c2"].repo = "prisma"
     /\ call["c1"].request = call["c2"].request
     /\ call["c1"].fault = call["c2"].fault)
        => Observable(call["c1"].outcome) = Observable(call["c2"].outcome)

-----------------------------------------------------------------------------
(* The contract operations, one repository at a time *)

\* the request of call c
Req(c) == call[c].request

\* call c has settled a request for `op` that the backend did not reject
Settles(c, op) == Done(c) /\ Req(c).op = op /\ ~call[c].fault

\* `out` is a NOT_FOUND StorageError whose metadata.id is id
IsNotFound(out, id) ==
    /\ out.kind = "throw"
    /\ out.value.t = "StorageError"
    /\ out.value.code = "NOT_FOUND"
    /\ out.value.metadata = <<id>>

\* C11: deleteFile(id) on an id for which no record exists raises a NOT_FOUND
\* StorageError whose metadata.id is the requested id, in every adapter.
C11_DeleteAbsentIsNotFound ==
    \A c \in Calls :
        (Settles(c, "deleteFile") /\ ~HasRow(hist[c].storeAt, Req(c).id))
            => IsNotFound(call[c].outcome, Req(c).id)

\* C12: updateFile(id, data) on an id for which no record exists raises a
\* NOT_FOUND StorageError whose metadata.id is the requested id, in every
\* adapter, and leaves the store as it was.
C12_UpdateAbsentIsNotFound ==
    \A c \in Calls :
        (Settles(c, "updateFile") /\ ~HasRow(hist[c].storeAt, Req(c).id))
            => /\ IsNotFound(call[c].outcome, Req(c).id)
               /\ store[call[c].repo] = hist[c].storeAt

\* both adapters have answered updateFile for an id that is not in their
\* table while another record is
C12_Witness ==
    \A c \in Calls :
        /\ Settles(c, "updateFile")
        /\ ~HasRow(hist[c].storeAt, Req(c).id)
        /\ hist[c].storeAt.rows # {}
        /\ call[c].outcome.kind = "throw"

\* C13: every error a repository method of either adapter raises to its
\* caller is a StorageError of kind NOT_FOUND or INTERNAL_SERVER_ERROR; the
\* caller never observes any other exception.
C13_OnlyStorageErrors ==
    \A c \in Calls :
        (Done(c) /\ Req(c).op \in ContractOps /\ call[c].outcome.kind = "throw")
            => /\ call[c].outcome.value.t = "StorageError"
               /\ call[c].outcome.value.code \in {"NOT_FOUND", "INTERNAL_SERVER_ERROR"}

\* ids of the records a caller has been handed and not seen deleted
KnownIds(c) == {r.id : r \in hist[c].known}

\* C14: for every id and every sequence of operations, exists(id) returns
\* false before a record with that id is created, true from its creation
\* until its deletion, and false after its deletion has succeeded.
C14_ExistsFollowsLifetime ==
    \A c \in Calls :
        Settles(c, "exists")
            => call[c].outcome = Return(Bool(Req(c).id \in KnownIds(c)))

\* both adapters have answered false for an id they had assigned to a record
\* that has since been deleted
C14_Witness ==
    \A c \in Calls :
        /\ Settles(c, "exists")
        /\ Req(c).id < hist[c].storeAt.nextId
        /\ Req(c).id \notin KnownIds(c)
        /\ call[c].outcome = Return(Bool(FALSE))

\* the rows of table st whose id is in the list ids
Listed(st, ids) == {r \in st.rows : \E i \in DOMAIN ids : ids[i] = r.id}

\* C15: bulkDeleteFiles(ids) with a non-empty list removes from the files
\* table exactly the records whose id is listed, leaves every other record
\* as it was, and returns `deleted` equal to the number of records removed.
C15_BulkDeleteRemovesListed ==
    \A c \in Calls :
        (Settles(c, "bulkDeleteFiles") /\ Req(c).ids # <<>>)
            => /\ store[call[c].repo].rows
                    = hist[c].storeAt.rows \ Listed(hist[c].storeAt, Req(c).ids)
               /\ call[c].outcome
                    = Return(Deleted(Cardinality(Listed(hist[c].storeAt, Req(c).ids))))

\* what count(o) returns from the given repository on its table as it is now
CountNow(repo, o) == AdapterThunk(repo, [op |-> "count", options |-> o], store[repo], FALSE).out

\* C16: for every filter F (search, uploaderId, startDate, endDate) and every
\* limit N, on a table that does not change in between, count(F) equals the
\* total that getAllFiles returns for F with limit N and offset 0, and
\* getAllFiles returns at most N rows.
C16_CountEqualsTotal ==
    \A c \in Calls :
        (Settles(c, "getAllFiles") /\ Req(c).options.offset = 0
         /\ store[call[c].repo] = hist[c].storeAt)
            => /\ call[c].outcome.kind = "return"
               /\ CountNow(call[c].repo, Req(c).options) = Return(Num(call[c].outcome.value.total))
               /\ Len(call[c].outcome.value.data) <= Req(c).options.limit

\* both adapters have returned a page cut off by the limit: more records
\* match the filter than the page holds
C16_Witness ==
    \A c \in Calls :
        /\ Settles(c, "getAllFiles")
        /\ call[c].outcome.kind = "return"
        /\ Len(call[c].outcome.value.data) = Req(c).options.limit
        /\ call[c].outcome.value.total > Req(c).options.limit

\* C17: bulkDeleteFiles([]) returns {deleted: 0} and bulkCreateFiles([])
\* returns [] without issuing any backend call and without changing the
\* store: no answer of the backend, and no rejection, takes part in the call.
C17_EmptyBulkIsNoOp ==
    \A c \in Calls :
        /\ (Done(c) /\ Req(c).op = "bulkDeleteFiles" /\ Req(c).ids = <<>>)
                => /\ call[c].outcome = Return(Deleted(0))
                   /\ hist[c].queries = 0
                   /\ store[call[c].repo] = hist[c].storeAt
        /\ (Done(c) /\ Req(c).op = "bulkCreateFiles" /\ Req(c).files = <<>>)
                => /\ call[c].outcome = Return(List(<<>>))
                   /\ hist[c].queries = 0
                   /\ store[call[c].repo] = hist[c].storeAt

\* both adapters have settled bulkDeleteFiles([]) over a table that holds
\* records
C17_Witness ==
    \A c \in Calls :
        /\ Done(c) /\ Req(c).op = "bulkDeleteFiles" /\ Req(c).ids = <<>>
        /\ hist[c].storeAt.rows # {}

\* record r carries the five fields of the FileInsert d
Echoes(r, d) ==
    /\ r.r2Key = d.r2Key
    /\ r.originalFilename = d.originalFilename
    /\ r.fileSize = Num(d.fileSize)
    /\ r.publicUrl = d.publicUrl
    /\ r.uploadedBy = d.uploadedBy

\* C18: create/read round trip: createFile(d) returns a record with an id and
\* a createdAt assigned by the backend whose other fields equal d, and as
\* long as that record is not deleted, getFileById of its id returns a record
\* equal to the one the caller was last handed for that id.
C18_CreateReadRoundTrip ==
    \A c \in Calls :
        /\ (Settles(c, "createFile") /\ call[c].outcome.kind = "return")
                => /\ Echoes(call[c].outcome.value.row, Req(c).data)
                   /\ call[c].outcome.value.row.id \notin {r.id : r \in hist[c].storeAt.rows}
                   /\ call[c].outcome.value.row.createdAt >= hist[c].storeAt.nextId
        /\ (Settles(c, "getFileById") /\ Req(c).id \in KnownIds(c))
                => \E r \in hist[c].known :
                        r.id = Req(c).id /\ call[c].outcome = Return(Record(r))

\* C19: getFileById(id) and getFileByR2Key(key) return null, and raise no
\* error, whenever no record matches, in particular for an id whose record a
\* preceding deleteFile(id) has removed.
C19_NoMatchIsNull ==
    \A c \in Calls :
        /\ (Settles(c, "getFileById") /\ ~HasRow(hist[c].storeAt, Req(c).id))
                => call[c].outcome = Return(Null)
        /\ (Settles(c, "getFileByR2Key") /\ ~KeyTaken(hist[c].storeAt, Req(c).r2Key))
                => call[c].outcome = Return(Null)

\* both adapters have answered null to getFileById for an id they had
\* assigned to a record that has since been deleted
C19_Witness ==
    \A c \in Calls :
        /\ Settles(c, "getFileById")
        /\ Req(c).id < hist[c].storeAt.nextId
        /\ ~HasRow(hist[c].storeAt, Req(c).id)
        /\ Req(c).id \notin KnownIds(c)
        /\ call[c].outcome = Return(Null)

\* C20: across any sequence of createFile calls with a registered afterCreate
\* hook, the hook is invoked exactly once for each call whose operation
\* succeeds, and a failure of the hook, in this call or an earlier one,
\* neither makes the createFile call fail nor keeps the hook from being invoked.
C20_AfterCreateOncePerSuccess ==
    \A c \in Calls :
        (Done(c) /\ Req(c).op = "createFile" /\ ThunkIs(c, "return")
         /\ hist[c].startReq["afterCreate"] # None)
            => /\ Len(Starts(c, {"after"})) = 1
               /\ call[c].outcome = hist[c].thunk

-----------------------------------------------------------------------------
(* Claims about failures inside the hook engine *)

\* entry i of call c's log: a before-hook or after-hook has thrown
HookFailedAt(c, i) ==
    /\ Log(c)[i].ev = "end" /\ Log(c)[i].stage \in {"before", "after"}
    /\ Log(c)[i].out.kind = "throw"

\* the error-hook registered for the whole of call c (None without one)
StableOnError(c) ==
    IF "onError" \in hist[c].changed THEN None ELSE hist[c].startReq["onError"]

\* C21: when a before-hook or after-hook throws H in a call with a registered
\* error-hook, and the failing hook is not that error-hook, the next thing the
\* call does is invoke the error-hook with a context whose operation is
\* "hook_error", whose error is H and whose metadata nests the context the
\* failing hook received; the error-hook is invoked for hook failures only
\* then, so exactly once for each.
C21_HookFailureForwardedOnce ==
    \A c \in Calls :
        LET log == Log(c) IN
        \A i \in DOMAIN log :
            /\ (HookFailedAt(c, i) /\ StableOnError(c) \notin {None, log[i].fn})
                => /\ i < Len(log)
                   /\ log[i + 1].ev = "start" /\ log[i + 1].stage = "hook_error"
                   /\ log[i + 1].fn = StableOnError(c)
                   /\ log[i + 1].ctx.operation = "hook_error"
                   /\ log[i + 1].ctx.error = log[i].out.value
                   /\ log[i + 1].ctx.metadata.originalContext = <<log[i].ctx>>
            /\ (log[i].ev = "start" /\ log[i].stage = "hook_error"
                    /\ "onError" \notin hist[c].changed)
                => i > 1 /\ HookFailedAt(c, i - 1)

\* a finished call whose before-hook f threw H1, which was handed to the
\* error-hook g in a "hook_error" context
C21_Witness ==
    \E c \in Calls :
        /\ Done(c) /\ "onError" \notin hist[c].changed
        /\ \E i \in DOMAIN Log(c) :
            /\ HookFailedAt(c, i) /\ Log(c)[i].stage = "before"
            /\ Log(c)[i].fn # hist[c].startReq["onError"]
            /\ i < Len(Log(c))
            /\ Log(c)[i + 1].stage = "hook_error"
            /\ Log(c)[i + 1].ctx.operation = "hook_error"
            /\ Log(c)[i + 1].ctx.error = Err("H1")

\* how often call c has invoked the error-hook, for its thunk or for a hook
ErrorHookCalls(c) == Len(Starts(c, {"onError", "hook_error"}))

\* entry i of call c's log: the error-hook has thrown
ErrorHookFailedAt(c, i) ==
    /\ Log(c)[i].ev = "end" /\ Log(c)[i].stage \in {"onError", "hook_error"}
    /\ Log(c)[i].out.kind = "throw"

\* the error-hook's own failures are not handed to the error-hook, and a call
\* invokes it at most twice
ErrorHookBounded ==
    \A c \in Calls :
        "onError" \notin hist[c].changed =>
            /\ ErrorHookCalls(c) <= 2
            /\ \A i \in DOMAIN Log(c) :
                ErrorHookFailedAt(c, i) =>
                    (i < Len(Log(c)) => Log(c)[i + 1].stage \notin {"onError", "hook_error"})

\* C22: a failure of the error-hook itself is caught and not forwarded to the
\* error-hook again, a call invokes the error-hook a bounded number of times
\* (at most twice), and every wrapped call whose thunk and hook invocations
\* settle reaches its end, also when the error-hook throws on every invocation.
C22_ErrorHookFailureContained ==
    /\ []ErrorHookBounded
    /\ \A c \in Calls : InFlight(c) ~> Done(c)

\* a call has finished although its error-hook threw both times it was
\* invoked: for the failed before-hook and for the failed thunk
C22_Witness ==
    \E c \in Calls :
        /\ Done(c) /\ ErrorHookCalls(c) = 2
        /\ \E i, j \in DOMAIN Log(c) :
            /\ ErrorHookFailedAt(c, i) /\ Log(c)[i].stage = "hook_error"
            /\ ErrorHookFailedAt(c, j) /\ Log(c)[j].stage = "onError"

\* entry i of call c's log: the interceptor has thrown in the given phase
InterceptorFailedAt(c, i, phase) ==
    /\ Log(c)[i].ev = "end" /\ Log(c)[i].stage = phase
    /\ Log(c)[i].out.kind = "throw"

\* C23: when the interceptor throws, in the pre phase or in the post phase,
\* the call goes on with the context that was passed to the interceptor: the
\* before-hook and the operation (after a pre-phase failure) and the after-hook
\* (after a post-phase failure) are the next to run and are given that very
\* context, and the call ends with the outcome of its thunk.
C23_InterceptorFailureContained ==
    \A c \in Calls :
        LET log == Log(c) IN
        \A i \in DOMAIN log :
            /\ InterceptorFailedAt(c, i, "intercept_pre") =>
                /\ i < Len(log) =>
                    /\ log[i + 1].ev = "start"
                    /\ log[i + 1].stage = IF call[c].beforeHook # None THEN "before"
                                          ELSE "operation"
                /\ \A j \in DOMAIN log :
                    (log[j].ev = "start" /\ log[j].stage \in {"before", "operation"})
                        => log[j].ctx = log[i].ctx
                /\ call[c].pc \notin {"intercept_pre", "before"} =>
                    /\ Runs(c) = 1
                    /\ call[c].beforeHook # None => Len(Starts(c, {"before"})) = 1
                /\ Done(c) => call[c].outcome = hist[c].thunk
            /\ InterceptorFailedAt(c, i, "intercept_post") =>
                /\ (call[c].afterHook # None /\ call[c].pc # "intercept_post") =>
                    /\ i < Len(log)
                    /\ log[i + 1] = Ev("start", "after", call[c].afterHook, log[i].ctx, Pending)
                /\ Done(c) => call[c].outcome = hist[c].thunk

\* a call returned its thunk's result after its interceptor threw in both
\* phases and the before-hook and the after-hook ran
C23_Witness ==
    \E c \in Calls :
        /\ Done(c) /\ call[c].outcome = Return(Val("r1"))
        /\ \E i, j \in DOMAIN Log(c) :
            /\ InterceptorFailedAt(c, i, "intercept_pre")
            /\ InterceptorFailedAt(c, j, "intercept_post")
        /\ Len(Starts(c, {"before"})) = 1 /\ Len(Starts(c, {"after"})) = 1

\* entry i of call c's log comes after the operation thunk has settled
AfterCompletion(c, i) ==
    \E j \in 1..(i - 1) : Log(c)[j].ev = "end" /\ Log(c)[j].stage = "operation"

\* C24 (as claimed): every context passed to an after-hook or to the
\* error-hook once the operation has completed or failed carries the elapsed
\* duration in its metadata bag.
C24_DurationAfterCompletion ==
    \A c \in Calls :
        \A i \in DOMAIN Log(c) :
            (/\ Log(c)[i].ev = "start"
             /\ Log(c)[i].stage \in {"after", "onError", "hook_error"}
             /\ AfterCompletion(c, i))
                => /\ Log(c)[i].ctx.metadata.defined
                   /\ Log(c)[i].ctx.metadata.duration

\* the context a hook of call c was handed at entry i of the log: for a
\* forwarded hook failure, the context nested in the synthetic one
HandedContext(c, i) ==
    IF Log(c)[i].stage = "hook_error"
        THEN Log(c)[i].ctx.metadata.originalContext[1]
        ELSE Log(c)[i].ctx

\* C25: each wrapped call starts with a fresh context of its own (its
\* arguments, no result, no error, an empty metadata bag), and whatever the
\* interleaving with another call on the same repository, a context handed to
\* its callbacks shows a result, an error or a duration only once its own
\* thunk has settled, and then only what its own thunk produced.
C25_ContextsNotShared ==
    \A c \in Calls :
        LET log == Log(c) IN
        /\ log # <<>> =>
                log[1].ctx = [operation |-> "operationFn", data |-> Val(c),
                              result |-> NoValue, error |-> NoValue,
                              metadata |-> EmptyBag, obj |-> "call"]
        /\ \A i \in DOMAIN log :
            log[i].ev = "start" =>
                LET x == HandedContext(c, i) IN
                /\ x.data = Val(c)
                /\ ~AfterCompletion(c, i) =>
                        /\ x.result = NoValue /\ x.error = NoValue
                        /\ ~x.metadata.duration
                /\ x.result # NoValue => Return(x.result) = hist[c].thunk
                /\ x.error # NoValue => Throw(x.error) = hist[c].thunk

\* one call awaits its after-hook with its result and duration attached
\* while the other, still before its thunk, awaits its before-hook
C25_Witness ==
    /\ call["c1"].pc = "after" /\ call["c1"].hook # None
    /\ call["c1"].hookCtx.result = Val("r1") /\ call["c1"].hookCtx.metadata.duration
    /\ call["c2"].pc = "before" /\ call["c2"].hook # None
    /\ call["c2"].hookCtx.result = NoValue /\ ~call["c2"].hookCtx.metadata.duration

\* the arguments call c was started with, as its first context shows them
PassedRequest(c) ==
    LET d == Log(c)[1].ctx.data IN
    IF call[c].operation = "createFile" THEN [op |-> "createFile", data |-> d]
    ELSE [op |-> "updateFile", id |-> d.id, data |-> d.data]

\* C26 (as claimed): what createFile and updateFile write to the backend
\* depends only on the arguments the caller passed and on the store: whatever
\* the interceptor and the before-hook did, context.data included, the table
\* after the write is the one the passed arguments give.
C26_WriteDependsOnArgumentsOnly ==
    \A c \in Calls :
        (call[c].operation \in {"createFile", "updateFile"} /\ ~ThunkIs(c, "pending"))
            => store[call[c].repo] =
                    AdapterThunk(call[c].repo, PassedRequest(c), hist[c].storeAt,
                                 call[c].fault).st

\* C27: when the operation thunk threw, the before-hook (if one is
\* registered) was invoked exactly once, before the thunk, and neither the
\* post-phase interceptor nor the after-hook is invoked for that call; an
\* after-hook is invoked only in calls whose thunk returned normally.
C27_NoAfterHookOnFailure ==
    \A c \in Calls :
        LET log == Log(c) IN
        /\ ThunkIs(c, "throw") =>
            /\ \A i \in DOMAIN log : log[i].stage \notin {"intercept_post", "after"}
            /\ call[c].beforeHook # None =>
                /\ Len(Starts(c, {"before"})) = 1
                /\ \E i, j \in DOMAIN log :
                    /\ i < j
                    /\ log[i].ev = "end" /\ log[i].stage = "before"
                    /\ log[j].ev = "start" /\ log[j].stage = "operation"
        /\ (\E i \in DOMAIN log : log[i].stage = "after") => ThunkIs(c, "return")

\* a call whose thunk threw has finished: its before-hook ran once, its
\* error-hook was invoked, and the interceptor was called in the pre phase only
C27_Witness ==
    \E c \in Calls :
        /\ Done(c) /\ ThunkIs(c, "throw") /\ call[c].outcome.kind = "throw"
        /\ hist[c].startReq["afterCreate"] # None
        /\ Len(Starts(c, {"before"})) = 1 /\ Len(Starts(c, {"intercept_pre"})) = 1
        /\ Len(Starts(c, {"onError"})) = 1
        /\ Len(Starts(c, {"intercept_post", "after"})) = 0

-----------------------------------------------------------------------------
(* Claims about callers that run at the same time *)

\* C28 (as claimed): the page and the total a getAllFiles call returns
\* describe the same state of the table, so that with offset 0 the page never
\* has more rows than the total says, also when another caller's createFile,
\* deleteFile or bulkDeleteFiles completes while the call is in flight.
C28_PageWithinTotal ==
    \A c \in Calls :
        (Done(c) /\ Req(c).op = "getAllFiles" /\ call[c].outcome.kind = "return")
            => Len(call[c].outcome.value.data) <= call[c].outcome.value.total

-----------------------------------------------------------------------------
(* Claims about FlexibleFileService.deleteFile *)

IsServiceDelete(c) == Done(c) /\ call[c].operation = "service.deleteFile"

\* C29 (as claimed): FlexibleFileService.deleteFile is all-or-nothing: when
\* it has raised an error the record and the blob are as they were before the
\* call, and when it has returned both are gone and r2Deleted is true (stated
\* for a call that ran with no other call beside it).
C29_DeleteAllOrNothing ==
    \A c \in Calls :
        (IsServiceDelete(c) /\ \A d \in Calls \ {c} : call[d].pc = "idle") =>
            IF call[c].outcome.kind = "throw"
                THEN /\ store[call[c].repo] = hist[c].storeAt
                     /\ bucket.keys = hist[c].bucketAt.keys
                ELSE /\ ~HasRow(store[call[c].repo], Req(c).fileId)
                     /\ call[c].outcome.value.file.row.r2Key \notin bucket.keys
                     /\ call[c].outcome.value.r2Deleted

\* C30 (as claimed): of two deleteFile calls of the service by the owner for
\* the same file, both started while the file existed and neither meeting a
\* backend failure, exactly one returns, the other fails with a NOT_FOUND
\* error, and one DeleteObject command is sent for the blob.
C30_OneDeleteWins ==
    (/\ \A c \in Calls :
            /\ IsServiceDelete(c) /\ ~call[c].fault
            /\ Req(c).fileId = 1 /\ HasRow(hist[c].storeAt, 1)
            /\ Req(c).userId = TheRow(hist[c].storeAt, 1).uploadedBy)
        => /\ \E c \in Calls :
                /\ call[c].outcome.kind = "return"
                /\ \A d \in Calls \ {c} :
                    /\ call[d].outcome.kind = "throw"
                    /\ call[d].outcome.value.code = "NOT_FOUND"
           /\ bucket.deletes = 1

=============================================================================
